---------------------------- MODULE Spec2Model ----------------------------
(***************************************************************************)
(* Verification model of Prochains_Departs: the network workers of api.py  *)
(* (DepartureWorker, ResolveAndProbeWorker) and the helpers of models.py.  *)
(*                                                                         *)
(* Strings are sequences of one-character atoms, so that concatenation,    *)
(* substring tests, lower(), normalize() and the lexicographic order used  *)
(* by list.sort are computed, not assumed.  The atom "e_acute" stands for  *)
(* the precomposed letter U+00E9 and "acute" for the combining mark U+0301.*)
(***************************************************************************)
EXTENDS Integers, Sequences, FiniteSets, TLC

(***************************************************************************)
(* Bounds of the model.                                                    *)
(***************************************************************************)
MaxFavs == 3
MaxVisits == 2
MaxGroupFavs == 2
MaxRankVisits == 6
MaxProbeVisits == 3
MaxEtaVisits == 2
MaxLines == 5
MaxStops == 3
MaxCatalogRecords == 2
MaxPlaceLen == 3
MaxMwFavs == 2
MaxOps == 3
MaxLaunches == 2
MaxSaved == 2
MaxEta == 125
MaxClock == 170
MaxProbes == 2

(***************************************************************************)
(* Python string primitives.                                               *)
(***************************************************************************)
Min(a, b) == IF a <= b THEN a ELSE b

\* str.lower() on one character
LowerChar(c) ==
    CASE c = "S" -> "s"
      [] c = "G" -> "g"
      [] c = "N" -> "n"
      [] c = "M" -> "m"
      [] c = "P" -> "p"
      [] c = "R" -> "r"
      [] c = "E" -> "e"
      [] c = "T" -> "t"
      [] c = "B" -> "b"
      [] c = "Z" -> "z"
      [] c = "E_acute" -> "e_acute"
      [] OTHER -> c

\* str.lower()
Lower(s) == [i \in 1..Len(s) |-> LowerChar(s[i])]

\* Python's  a in b  on strings
IsSubstr(a, b) ==
    \E i \in 0..(Len(b) - Len(a)) : SubSeq(b, i + 1, i + Len(a)) = a

\* code point of a character (only the order matters)
Ord(c) ==
    CASE c = " " -> 32
      [] c = "+" -> 43
      [] c = "-" -> 45
      [] c = "0" -> 48
      [] c = "1" -> 49
      [] c = "2" -> 50
      [] c = "3" -> 51
      [] c = "4" -> 52
      [] c = "5" -> 53
      [] c = "6" -> 54
      [] c = "7" -> 55
      [] c = "8" -> 56
      [] c = "9" -> 57
      [] c = ":" -> 58
      [] c = "<" -> 60
      [] c = ">" -> 62
      [] c = "?" -> 63
      [] c = "B" -> 66
      [] c = "E" -> 69
      [] c = "M" -> 77
      [] c = "N" -> 78
      [] c = "P" -> 80
      [] c = "R" -> 82
      [] c = "S" -> 83
      [] c = "T" -> 84
      [] c = "Z" -> 90
      [] c = "a" -> 97
      [] c = "b" -> 98
      [] c = "e" -> 101
      [] c = "h" -> 104
      [] c = "t" -> 116
      [] c = "v" -> 118
      [] c = "z" -> 122
      [] c = "sup2" -> 178
      [] c = "E_acute" -> 201
      [] c = "e_acute" -> 233
      [] c = "acute" -> 769
      [] OTHER -> 120

\* Python's  a < b  on strings: lexicographic by code point
RECURSIVE StrLess(_, _)
StrLess(a, b) ==
    IF b = <<>> THEN FALSE
    ELSE IF a = <<>> THEN TRUE
    ELSE IF Ord(Head(a)) # Ord(Head(b)) THEN Ord(Head(a)) < Ord(Head(b))
    ELSE StrLess(Tail(a), Tail(b))

(***************************************************************************)
(* models.py: normalize and is_same_place.                                 *)
(***************************************************************************)
\* unicodedata.normalize("NFD", c) of one character
Decompose(c) ==
    CASE c = "e_acute" -> <<"e", "acute">>
      [] c = "E_acute" -> <<"E", "acute">>
      [] OTHER -> <<c>>

\* unicodedata.category(c) != "Mn"
NotMark(c) == c # "acute"

\* the character class [-''\s<>()] of the regular expression
IsSepChar(c) == c \in {"-", "'", " ", "<", ">", "(", ")"}

RECURSIVE StripAccents(_)
StripAccents(s) ==
    IF s = <<>> THEN <<>>
    ELSE SelectSeq(Decompose(Head(s)), NotMark) \o StripAccents(Tail(s))

RECURSIVE DropSeps(_)
DropSeps(s) ==
    IF s # <<>> /\ IsSepChar(Head(s)) THEN DropSeps(Tail(s)) ELSE s

\* re.sub(r"[-''\s<>()]+", " ", text)
RECURSIVE CollapseSeps(_)
CollapseSeps(s) ==
    IF s = <<>> THEN <<>>
    ELSE IF IsSepChar(Head(s)) THEN <<" ">> \o CollapseSeps(DropSeps(Tail(s)))
    ELSE <<Head(s)>> \o CollapseSeps(Tail(s))

RECURSIVE LStrip(_)
LStrip(s) == IF s # <<>> /\ Head(s) = " " THEN LStrip(Tail(s)) ELSE s

RECURSIVE RStrip(_)
RStrip(s) ==
    IF s # <<>> /\ s[Len(s)] = " " THEN RStrip(SubSeq(s, 1, Len(s) - 1)) ELSE s

\* str.strip()
Strip(s) == RStrip(LStrip(s))

normalize(text) == Lower(Strip(CollapseSeps(StripAccents(text))))

\* variant: the guard on empty names is missing
is_same_place_allows_empty(a, b) == IsSubstr(a, b) \/ IsSubstr(b, a)

\* variant: containment is tested in one direction only
is_same_place_one_way(a, b) ==
    IF a = <<>> \/ b = <<>> THEN FALSE ELSE IsSubstr(b, a)

is_same_place(a, b) ==
    IF a = <<>> \/ b = <<>> THEN FALSE ELSE IsSubstr(a, b) \/ IsSubstr(b, a)

(***************************************************************************)
(* api.py: the live-feed payload and DepartureWorker._parse_departures.    *)
(*                                                                         *)
(* A response is a record [kind, visits]:                                  *)
(*   "fail"       requests.get or raise_for_status raises RequestException *)
(*   "notjson"    resp.json() raises ValueError                            *)
(*   "nokeys"     a dict without Siri/ServiceDelivery/... (KeyError)       *)
(*   "nodelivery" StopMonitoringDelivery is [] (IndexError)                *)
(*   "badtype"    a value of another type, such as {"Siri": null} or a     *)
(*                top-level list (TypeError or AttributeError)             *)
(*   "visits"     a well-formed delivery holding the visits                *)
(* A visit holds the DestinationName value as a tagged variant, the three  *)
(* time fields of MonitoredCall (<<>> when absent, null or "") and the     *)
(* DirectionRef value.  A time string is modelled in the reduced form      *)
(* hour, hour, zone: <<"0","9","Z">> is 09:00Z and <<"1","0","+","1">> is  *)
(* 10:00+01:00.  The fields of Departure that no filter reads (line name,  *)
(* line ref, status, vehicle_at_stop) are left out.                        *)
(***************************************************************************)
Unknown == <<"?">>

\* lines 102-106: list-or-scalar decode of DestinationName, "?" by default
DecodeDestination(dn) ==
    CASE dn.tag = "list" -> dn.value
      [] dn.tag = "scalar" -> dn.value
      [] OTHER -> Unknown

\* variant: the aimed time is preferred to the expected ones
Or3AimedFirst(a, b, c) == IF c # <<>> THEN c ELSE IF b # <<>> THEN b ELSE a

\* a or b or c
Or3(a, b, c) == IF a # <<>> THEN a ELSE IF b # <<>> THEN b ELSE c

\* lines 108-112
ExpectedTime(v) == Or3(v.edt, v.eat, v.adt)

IsDigit(c) == c \in {"0", "1", "2", "3", "4", "5", "6", "7", "8", "9"}

DigitVal(c) == Ord(c) - 48

\* expected_time.replace("Z", "+00:00"), the offset in the reduced form
RECURSIVE ReplaceZ(_)
ReplaceZ(s) ==
    IF s = <<>> THEN <<>>
    ELSE (IF Head(s) = "Z" THEN <<"+", "0">> ELSE <<Head(s)>>) \o ReplaceZ(Tail(s))

\* whether datetime.fromisoformat accepts the string
IsoParses(s) ==
    /\ Len(s) = 4
    /\ IsDigit(s[1]) /\ IsDigit(s[2]) /\ s[3] = "+" /\ IsDigit(s[4])

\* datetime.fromisoformat(s).timestamp(), in seconds
IsoEpoch(s) == ((10 * DigitVal(s[1]) + DigitVal(s[2])) - DigitVal(s[4])) * 3600

\* lines 125-133
EtaSeconds(expected_time, fetch_ts) ==
    IF expected_time # <<>> /\ IsoParses(ReplaceZ(expected_time))
    THEN IsoEpoch(ReplaceZ(expected_time)) - fetch_ts
    ELSE 0

\* lines 98-145: one visit to one Departure
ParseVisit(v, fetch_ts) ==
    [destination |-> DecodeDestination(v.dest),
     expected_iso |-> ExpectedTime(v),
     direction_ref |-> v.dir,
     fetch_timestamp |-> fetch_ts,
     eta_seconds |-> EtaSeconds(ExpectedTime(v), fetch_ts)]

\* the exceptions of lines 93-94 that the except clause of line 95 catches
ParseCaught(data) == data.kind \in {"nokeys", "nodelivery"}

\* the exceptions _parse_departures lets through (TypeError, AttributeError)
ParseRaises(data) == data.kind = "badtype"

_parse_departures(data, fetch_ts) ==
    IF ParseCaught(data) THEN <<>>
    ELSE [i \in 1..Len(data.visits) |-> ParseVisit(data.visits[i], fetch_ts)]

(***************************************************************************)
(* api.py: DepartureWorker.run, the per-favourite filter and ranking.      *)
(* A favourite is a record [stop_area_id, stop_name, line_id, direction,   *)
(* destination_name]; the badge fields are not read by the worker.         *)
(***************************************************************************)
\* line 71 (and main.py 185, widgets.py 313): the composite key
FavKey(fav) ==
    fav.stop_area_id \o <<"_">> \o fav.line_id \o <<"_">> \o fav.direction

\* main.py 165-167: the identity of a favourite
Identity(fav) == <<fav.stop_area_id, fav.line_id, fav.destination_name>>

\* line 49: the grouping key
GroupKey(fav) == <<fav.stop_area_id, fav.line_id>>

\* lines 47-52: dict of lists, in insertion order of the keys
RECURSIVE GroupInto(_, _)
GroupInto(groups, favs) ==
    IF favs = <<>> THEN groups
    ELSE LET fav == Head(favs)
             hit == {i \in 1..Len(groups) : groups[i].key = GroupKey(fav)}
         IN  IF hit = {}
             THEN GroupInto(Append(groups, [key |-> GroupKey(fav), favs |-> <<fav>>]),
                            Tail(favs))
             ELSE GroupInto([i \in 1..Len(groups) |->
                                IF i \in hit
                                THEN [groups[i] EXCEPT !.favs = Append(@, fav)]
                                ELSE groups[i]],
                            Tail(favs))

GroupFavourites(favs) == GroupInto(<<>>, favs)

\* variant: a departure leaving now is dropped
EtaPositive(d) == d.eta_seconds > 0

\* line 75
EtaOk(d) == d.eta_seconds >= 0

\* variant: the comparison keeps the case
DestinationMatchesCase(fav, d) ==
    IsSubstr(fav.destination_name, d.destination)

\* line 76
DestinationMatches(fav, d) ==
    IsSubstr(Lower(fav.destination_name), Lower(d.destination))

\* variant: an empty direction is compared like any other
DirectionExact(fav, d) == d.direction_ref = fav.direction

\* line 77
DirectionMatches(fav, d) ==
    fav.direction = <<>> \/ d.direction_ref = fav.direction

\* line 78, with stop_norm of line 72
NotTerminus(fav, d) ==
    ~is_same_place(normalize(fav.stop_name), normalize(d.destination))

\* lines 73-79
Matched(fav, deps) ==
    SelectSeq(deps, LAMBDA d : /\ EtaOk(d)
                               /\ DestinationMatches(fav, d)
                               /\ DirectionMatches(fav, d)
                               /\ NotTerminus(fav, d))

\* the sort key of line 80: d.expected_iso or ""
SortKey(d) == d.expected_iso

\* list.sort is stable: x goes after every element whose key is not greater
RECURSIVE InsertSorted(_, _)
InsertSorted(sorted, x) ==
    IF sorted = <<>> THEN <<x>>
    ELSE IF StrLess(SortKey(x), SortKey(Head(sorted))) THEN <<x>> \o sorted
    ELSE <<Head(sorted)>> \o InsertSorted(Tail(sorted), x)

RECURSIVE SortFrom(_, _)
SortFrom(sorted, rest) ==
    IF rest = <<>> THEN sorted
    ELSE SortFrom(InsertSorted(sorted, Head(rest)), Tail(rest))

\* variant: the survivors are left in the order of the response
Unsorted(deps) == deps

\* line 80
SortByExpected(deps) == SortFrom(<<>>, deps)

\* the 5 of matched[:5]
MaxKept == 5

\* line 81: matched[:5]
Truncate(deps) == SubSeq(deps, 1, Min(MaxKept, Len(deps)))

\* lines 73-81: the list computed for one favourite
FavList(fav, deps) == Truncate(SortByExpected(Matched(fav, deps)))

\* results[fav_key] = ...
Store(res, key, val) ==
    [k \in DOMAIN res \cup {key} |-> IF k = key THEN val ELSE res[k]]

\* lines 70-81: the inner loop over the favourites of one group
RECURSIVE Distribute(_, _, _)
Distribute(res, favs, deps) ==
    IF favs = <<>> THEN res
    ELSE Distribute(Store(res, FavKey(Head(favs)), FavList(Head(favs), deps)),
                    Tail(favs), deps)

\* lines 57-60: the query of one live-feed request
FeedParams(stop_area_id, line_id, token) ==
    [apikey |-> token,
     MonitoringRef |-> <<"STIF:StopArea:SP:">> \o stop_area_id \o <<":">>,
     LineRef |-> <<"STIF:Line::">> \o line_id \o <<":">>]

(***************************************************************************)
(* The inputs the runs are checked on.                                     *)
(***************************************************************************)
Fav(sa, stop, line, dir, dest) ==
    [stop_area_id |-> sa, stop_name |-> stop, line_id |-> line,
     direction |-> dir, destination_name |-> dest]

\* Scenario A of the tests: one stop and line, directions "1" and "2"
FavA == Fav(<<"5">>, <<"P", "h">>, <<"C", "2">>, <<"1">>, <<"S", "e">>)
FavB == Fav(<<"5">>, <<"P", "h">>, <<"C", "2">>, <<"2">>, <<"N", "a">>)
\* the same stop, line and direction as FavA, another destination
FavC == Fav(<<"5">>, <<"P", "h">>, <<"C", "2">>, <<"1">>, <<"M", "v">>)
\* Scenario B of the tests: a favourite at the terminus of its line
FavD == Fav(<<"4">>, <<"S", "e_acute">>, <<"C", "1">>, <<"1">>, <<>>)
\* any direction, any destination
FavE == Fav(<<"4">>, <<"S", "e_acute">>, <<"C", "2">>, <<>>, <<>>)

FavPool == {FavA, FavB, FavC, FavD, FavE}

Visit(dest, edt, eat, adt, dir) ==
    [dest |-> dest, edt |-> edt, eat |-> eat, adt |-> adt, dir |-> dir]

AsList(name) == [tag |-> "list", value |-> name]
AsScalar(name) == [tag |-> "scalar", value |-> name]
Absent == [tag |-> "absent", value |-> <<>>]

T07 == <<"0", "7", "Z">>
T08 == <<"0", "8", "Z">>
T09 == <<"0", "9", "Z">>
T10 == <<"1", "0", "Z">>
\* 10:00+02:00, the instant 08:00Z
T10plus2 == <<"1", "0", "+", "2">>
Garbled == <<"x">>

NameSeR == <<"S", "E", " ", "<", "R", ">">>
NameSe == <<"S", "e">>
NameNa == <<"N", "a">>
NameMv == <<"M", "v">>

VisitPool ==
    { Visit(AsList(NameSeR), T09, <<>>, <<>>, <<"1">>),
      Visit(AsList(NameNa), T10, <<>>, <<>>, <<"2">>),
      Visit(AsList(NameMv), <<>>, T08, <<>>, <<"1">>),
      Visit(AsScalar(NameSe), <<>>, <<>>, T07, <<"2">>),
      Visit(AsList(NameMv), T10plus2, T09, <<>>, <<"2">>),
      Visit(Absent, Garbled, <<>>, <<>>, <<>>) }

ScenarioA ==
    << Visit(AsList(NameSeR), T09, <<>>, <<>>, <<"1">>),
       Visit(AsList(NameNa), T10, <<>>, <<>>, <<"2">>),
       Visit(AsList(NameMv), T08, <<>>, <<>>, <<"1">>) >>

ScenarioB ==
    << Visit(AsList(NameSe), T08, <<>>, <<>>, <<"1">>),
       Visit(AsList(NameMv), T09, <<>>, <<>>, <<"1">>),
       Visit(AsList(NameSeR), T10, <<>>, <<>>, <<"1">>) >>

SeqsUpTo(S, n) == UNION {[1..k -> S] : k \in 0..n}

Delivery(visits) == [kind |-> "visits", visits |-> visits]

Malformed ==
    {[kind |-> k, visits |-> <<>>] :
        k \in {"fail", "notjson", "nokeys", "nodelivery", "badtype"}}

RunResponses == Malformed \cup {Delivery(ScenarioA), Delivery(ScenarioB)}

RankVisits ==
    {Visit(AsList(NameNa), t, <<>>, <<>>, <<"2">>) : t \in {T08, T09, T10plus2}}

\* time.time() at the receipt of a response: 07:00Z or 08:00Z
FetchTimes == {25200, 28800}

Tokens == {"key0", "key1"}

(***************************************************************************)
(* State.                                                                  *)
(***************************************************************************)
VARIABLES
    API_TOKEN,    \* api.py 16: the module-level credential
    env_file,     \* the API_TOKEN entry of the .env file
    favourites,   \* DepartureWorker.favourites
    pc,           \* position of DepartureWorker.run
    groups,       \* the local dict groups, in insertion order
    gi,           \* index of the group the for loop of line 54 is at
    results,      \* the local dict results
    requests,     \* the calls of requests.get, in order
    errors,       \* the error events emitted, in order
    finished,     \* the finished events emitted, in order
    handled,      \* per iteration: the response and all_departures
    assigned,     \* the assignments of line 81, in order
    rp_stop_id,   \* ResolveAndProbeWorker.stop_id
    rp_line_id,   \* ResolveAndProbeWorker.line_id
    rp_pc,        \* position of ResolveAndProbeWorker.run
    rp_area,      \* the local stop_area_id of run
    rp_name,      \* the local stop_name of run
    rp_requests,  \* the calls of requests.get, in order
    rp_handled,   \* the responses received, in order
    rp_errors,    \* the error events emitted, in order
    rp_finished,  \* the finished events emitted, in order
    rp_events,    \* the signals emitted, "error" or "finished", in order
    ls_query,     \* LineSearchWorker.query
    ls_mode,      \* LineSearchWorker.mode
    ls_search_id, \* LineSearchWorker.search_id
    ls_pc,        \* position of LineSearchWorker.run
    ls_requests,  \* the calls of requests.get, in order
    ls_handled,   \* the responses received, in order
    ls_events,    \* the signals emitted, in order
    sl_route_id,  \* StopsOnLineWorker.route_id
    sl_pc,        \* position of StopsOnLineWorker.run
    sl_requests,  \* the calls of requests.get, in order
    sl_handled,   \* the responses received, in order
    sl_events,    \* the signals emitted, in order
    sp_pc,        \* is_same_place: "start" before the call, "done" after it
    sp_a,         \* is_same_place: the argument a
    sp_b,         \* is_same_place: the argument b
    sp_out,       \* what is_same_place(a, b) returned
    sp_swapped,   \* what is_same_place(b, a) returned
    mw_favourites,      \* MainWindow.favourites
    mw_file,            \* the list last written by save_favourites
    mw_saves,           \* how many times save_favourites was called
    departure_map,      \* MainWindow.departure_map
    mw_workers,         \* the workers launched, in launch order
    mw_active_threads,  \* MainWindow._active_threads
    mw_active_workers,  \* MainWindow._active_workers
    mw_queue,           \* the slot calls queued in the main thread, in order
    next_refresh,       \* the text of the next-refresh label
    next_refresh_epoch, \* whether MainWindow._next_refresh_epoch is set
    mw_ops,             \* how many handlers of the window have run
    mw_last,            \* the last handler run, with its argument
    pf_pc,         \* persistence: "start", "saved", "loaded" or "reloaded"
    pf_file,       \* the favourites file
    pf_favourites, \* the list given to save_favourites
    pf_out,        \* what load_favourites returned or raised
    ss_page,               \* SearchScreen.stack.currentIndex()
    selected_mode,         \* SearchScreen.selected_mode
    selected_line,         \* SearchScreen.selected_line
    selected_stop,         \* SearchScreen.selected_stop
    resolved_stop_area_id, \* SearchScreen._resolved_stop_area_id
    ss_probing,            \* the stops whose resolution is in flight
    ss_last,               \* the last handler of the screen run
    dc_eta_seconds,     \* DepartureCard.eta_seconds
    dc_fetch_timestamp, \* DepartureCard.fetch_timestamp
    dc_now,             \* time.time()
    countdown_label,    \* the text of DepartureCard.countdown_label
    _sleeping,            \* MainWindow._sleeping
    refresh_timer,        \* whether MainWindow.refresh_timer is active
    countdown_timer,      \* whether MainWindow.countdown_timer is active
    stack_index,          \* MainWindow.stack.currentIndex()
    sleep_delay_minutes   \* MainWindow._settings.sleep_delay_minutes

dwVars == <<favourites, pc, groups, gi, results, requests, errors, finished,
            handled, assigned>>

rpVars == <<rp_stop_id, rp_line_id, rp_pc, rp_area, rp_name, rp_requests,
            rp_handled, rp_errors, rp_finished, rp_events>>

lsVars == <<ls_query, ls_mode, ls_search_id, ls_pc, ls_requests, ls_handled,
            ls_events>>

slVars == <<sl_route_id, sl_pc, sl_requests, sl_handled, sl_events>>

workerVars == <<API_TOKEN, env_file, dwVars, rpVars, lsVars, slVars>>

spVars == <<sp_pc, sp_a, sp_b, sp_out, sp_swapped>>

\* everything outside the workers of api.py
mwVars == <<mw_favourites, mw_file, mw_saves, departure_map, mw_workers,
            mw_active_threads, mw_active_workers, mw_queue, next_refresh,
            next_refresh_epoch, mw_ops, mw_last>>

pfVars == <<pf_pc, pf_file, pf_favourites, pf_out>>

ssVars == <<ss_page, selected_mode, selected_line, selected_stop,
            resolved_stop_area_id, ss_probing, ss_last>>

dcVars == <<dc_eta_seconds, dc_fetch_timestamp, dc_now, countdown_label>>

sleepVars == <<_sleeping, refresh_timer, countdown_timer, stack_index,
               sleep_delay_minutes>>

appVars == <<spVars, mwVars, pfVars, ssVars, dcVars, sleepVars>>

\* everything but the variables of one component
notSp == <<workerVars, mwVars, pfVars, ssVars, dcVars, sleepVars>>
notMw == <<workerVars, spVars, pfVars, ssVars, dcVars, sleepVars>>
notPf == <<workerVars, spVars, mwVars, ssVars, dcVars, sleepVars>>
notSs == <<workerVars, spVars, mwVars, pfVars, dcVars, sleepVars>>
notDc == <<workerVars, spVars, mwVars, pfVars, ssVars, sleepVars>>
\* everything but the variables of the window and of its sleep mode
notWindow == <<workerVars, spVars, pfVars, ssVars, dcVars>>

vars == <<workerVars, appVars>>

EmptyMap == [k \in {} |-> <<>>]

DWInit(favs) ==
    /\ API_TOKEN = "key0"
    /\ env_file = "key0"
    /\ favourites = favs
    /\ pc = "start"
    /\ groups = <<>>
    /\ gi = 1
    /\ results = EmptyMap
    /\ requests = <<>>
    /\ errors = <<>>
    /\ finished = <<>>
    /\ handled = <<>>
    /\ assigned = <<>>

\* no DepartureWorker exists
DWIdle ==
    /\ API_TOKEN = "key0"
    /\ env_file = "key0"
    /\ favourites = <<>>
    /\ pc = "idle"
    /\ groups = <<>>
    /\ gi = 1
    /\ results = EmptyMap
    /\ requests = <<>>
    /\ errors = <<>>
    /\ finished = <<>>
    /\ handled = <<>>
    /\ assigned = <<>>

\* lines 45-52
DW_Group ==
    /\ pc = "start"
    /\ groups' = GroupFavourites(favourites)
    /\ pc' = "loop"
    /\ UNCHANGED <<appVars, API_TOKEN, env_file, lsVars, slVars,
                   favourites, gi, results, requests, errors,
                   finished, handled, assigned, rpVars>>

\* variant: the try statement encloses the for loop, which an error ends
AfterErrorBreak(i, n) == n + 1

\* lines 83-86: the except clauses are inside the for loop, which goes on
AfterError(i, n) == i + 1

\* lines 54-86: one iteration of the for loop, for the response resp
\* received at fetch_ts
DW_Iter(resp, fetch_ts) ==
    /\ pc = "loop"
    /\ gi <= Len(groups)
    /\ requests' = Append(requests,
                          FeedParams(groups[gi].key[1], groups[gi].key[2], API_TOKEN))
    /\ IF resp.kind = "fail" THEN
          /\ errors' = Append(errors, [msg |-> "Erreur reseau", group |-> gi])
          /\ gi' = AfterError(gi, Len(groups))
          /\ handled' = Append(handled, [kind |-> resp.kind, visits |-> resp.visits,
                                        deps |-> <<>>])
          /\ UNCHANGED <<pc, results, assigned>>
       ELSE IF resp.kind = "notjson" THEN
          \* the ValueError of resp.json() is a RequestException too in
          \* requests 2.27 and later: either except clause may report it
          /\ \E m \in {"Erreur reseau", "Erreur donnees"} :
                errors' = Append(errors, [msg |-> m, group |-> gi])
          /\ gi' = AfterError(gi, Len(groups))
          /\ handled' = Append(handled, [kind |-> resp.kind, visits |-> resp.visits,
                                        deps |-> <<>>])
          /\ UNCHANGED <<pc, results, assigned>>
       ELSE IF ParseRaises(resp) THEN
          \* neither except clause matches: the exception leaves run
          /\ pc' = "raised"
          /\ handled' = Append(handled, [kind |-> resp.kind, visits |-> resp.visits,
                                        deps |-> <<>>])
          /\ UNCHANGED <<gi, results, errors, assigned>>
       ELSE
          LET deps == _parse_departures(resp, fetch_ts)
              favs == groups[gi].favs
          IN  /\ results' = Distribute(results, favs, deps)
              /\ assigned' = assigned \o
                    [i \in 1..Len(favs) |->
                        [fav |-> favs[i], group |-> gi,
                         list |-> FavList(favs[i], deps)]]
              /\ handled' = Append(handled, [kind |-> resp.kind,
                                            visits |-> resp.visits,
                                            deps |-> deps])
              /\ gi' = gi + 1
              /\ UNCHANGED <<pc, errors>>
    /\ UNCHANGED <<appVars, API_TOKEN, env_file, lsVars, slVars,
                   favourites, groups, finished, rpVars>>

\* line 88
DW_Finish ==
    /\ pc = "loop"
    /\ gi > Len(groups)
    /\ finished' = Append(finished, results)
    /\ pc' = "done"
    /\ UNCHANGED <<appVars, API_TOKEN, env_file, lsVars, slVars,
                   favourites, groups, gi, results, requests,
                   errors, handled, assigned, rpVars>>

(***************************************************************************)
(* api.py: ResolveAndProbeWorker.  The atom "MSP" stands for the marker    *)
(* "monomodalStopPlace".  A catalog response is a record [kind, arrname,   *)
(* zdaid]: "fail" (RequestException), "badtype" (a payload on which        *)
(* data.get or records[0].get raises), "norecords" (no or empty results),  *)
(* "record" (results[0] holds arrname and zdaid, <<>> when missing).       *)
(***************************************************************************)
\* s.split(":")[-1]
RECURSIVE LastSegment(_)
LastSegment(s) ==
    IF \E i \in 1..Len(s) : s[i] = ":"
    THEN LastSegment(Tail(s))
    ELSE s

\* variant: the marker is looked for at the start of the identifier only
IsRailByPrefix(stop_id) == stop_id # <<>> /\ Head(stop_id) = "MSP"

\* line 284
IsRail(stop_id) == IsSubstr(<<"MSP">>, stop_id)

\* line 289
ArrId(stop_id) == LastSegment(stop_id)

\* lines 290-295: the query of the catalog lookup
CatalogParams(stop_id) ==
    [where |-> <<"arrid=">> \o ArrId(stop_id), limit |-> 1]

DigitChar(d) == <<"0", "1", "2", "3", "4", "5", "6", "7", "8", "9">>[d + 1]

\* str(n) of a non-negative int
RECURSIVE Decimal(_)
Decimal(n) ==
    IF n < 10 THEN <<DigitChar(n)>>
    ELSE Append(Decimal(n \div 10), DigitChar(n % 10))

\* line 303: str(records[0].get("zdaid", "")); the field of the record is a
\* JSON string, a JSON number, null, or missing
PyStr(v) ==
    CASE v.tag = "str" -> v.text
      [] v.tag = "int" -> Decimal(v.num)
      [] v.tag = "null" -> <<"N", "o", "n", "e">>
      [] OTHER -> <<>>

\* lines 300-305: the pair _resolve returns for a catalog payload
ResolveRecord(cat) ==
    IF cat.kind = "record" THEN <<PyStr(cat.zdaid), cat.arrname>>
    ELSE <<<<>>, <<>>>>

\* lines 328-330: the destination of one visit; a scalar of any type is kept
ProbeDestination(dn) ==
    CASE dn.tag = "list" -> dn.value
      [] dn.tag = "scalar" -> dn.value
      [] dn.tag = "number" -> dn.value
      [] OTHER -> Unknown

\* variant: any destination is taken
UsableAny(dest) == TRUE

\* line 332: dest and dest != "?"
Usable(dest) == dest # <<>> /\ dest # Unknown

\* variant: destinations[dest] = dir_ref without the test of line 332
RECURSIVE AccumulateOverwrite(_, _)
AccumulateOverwrite(destinations, visits) ==
    IF visits = <<>> THEN destinations
    ELSE LET dest == ProbeDestination(Head(visits).dest)
             dir_ref == Head(visits).dir
             seen == \E i \in 1..Len(destinations) : destinations[i][1] = dest
         IN  IF ~Usable(dest)
             THEN AccumulateOverwrite(destinations, Tail(visits))
             ELSE IF seen
             THEN AccumulateOverwrite(
                      [i \in 1..Len(destinations) |->
                          IF destinations[i][1] = dest THEN <<dest, dir_ref>>
                          ELSE destinations[i]],
                      Tail(visits))
             ELSE AccumulateOverwrite(Append(destinations, <<dest, dir_ref>>),
                                      Tail(visits))

\* lines 326-333: the dict destinations, as a sequence of pairs in
\* insertion order
RECURSIVE Accumulate(_, _)
Accumulate(destinations, visits) ==
    IF visits = <<>> THEN destinations
    ELSE LET dest == ProbeDestination(Head(visits).dest)
             dir_ref == Head(visits).dir
             seen == \E i \in 1..Len(destinations) : destinations[i][1] = dest
         IN  IF Usable(dest) /\ ~seen
             THEN Accumulate(Append(destinations, <<dest, dir_ref>>), Tail(visits))
             ELSE Accumulate(destinations, Tail(visits))

\* lines 319-335: the list _probe_directions returns for a parsed payload
_probe_directions(data) ==
    IF ParseCaught(data) THEN <<>> ELSE Accumulate(<<>>, data.visits)

RPInit(stop_id, line_id) ==
    /\ rp_stop_id = stop_id
    /\ rp_line_id = line_id
    /\ rp_pc = "start"
    /\ rp_area = <<>>
    /\ rp_name = <<>>
    /\ rp_requests = <<>>
    /\ rp_handled = <<>>
    /\ rp_errors = <<>>
    /\ rp_finished = <<>>
    /\ rp_events = <<>>

Terminal(area, name, directions) ==
    [stop_area_id |-> area, stop_name |-> name, directions |-> directions]

\* lines 284-286: a rail identifier is resolved without a request
RP_ResolveRail ==
    /\ rp_pc = "start"
    /\ IsRail(rp_stop_id)
    /\ rp_area' = LastSegment(rp_stop_id)
    /\ rp_name' = <<>>
    /\ IF LastSegment(rp_stop_id) = <<>>
       THEN /\ rp_finished' = Append(rp_finished, Terminal(<<>>, <<>>, <<>>))
            /\ rp_events' = Append(rp_events, "finished")
            /\ rp_pc' = "done"
       ELSE /\ rp_pc' = "resolved"
            /\ UNCHANGED <<rp_finished, rp_events>>
    /\ UNCHANGED <<appVars, API_TOKEN, env_file, lsVars, slVars,
                   dwVars, rp_stop_id, rp_line_id, rp_requests,
                   rp_handled, rp_errors>>

\* variant: run goes on to the probe after a failed resolution
ResolveFailureFallsThrough == "resolved"

\* line 272: run returns after a failed resolution
AfterResolveFailure == "done"

\* lines 264-272 with 288-305: the catalog lookup answers cat
RP_ResolveCatalog(cat) ==
    /\ rp_pc = "start"
    /\ ~IsRail(rp_stop_id)
    /\ rp_requests' = Append(rp_requests,
                             [to |-> "catalog", params |-> CatalogParams(rp_stop_id)])
    /\ rp_handled' = Append(rp_handled, [from |-> "catalog", resp |-> cat])
    /\ IF cat.kind = "fail" THEN
          /\ rp_errors' = Append(rp_errors, "Erreur resolution")
          /\ rp_finished' = Append(rp_finished, Terminal(<<>>, <<>>, <<>>))
          /\ rp_events' = rp_events \o <<"error", "finished">>
          /\ rp_pc' = AfterResolveFailure
          /\ UNCHANGED <<rp_area, rp_name>>
       ELSE IF cat.kind = "badtype" THEN
          /\ rp_pc' = "raised"
          /\ UNCHANGED <<rp_area, rp_name, rp_errors, rp_finished, rp_events>>
       ELSE
          /\ rp_area' = ResolveRecord(cat)[1]
          /\ rp_name' = ResolveRecord(cat)[2]
          /\ UNCHANGED rp_errors
          /\ IF ResolveRecord(cat)[1] = <<>>
             THEN /\ rp_finished' = Append(rp_finished, Terminal(<<>>, <<>>, <<>>))
                  /\ rp_events' = Append(rp_events, "finished")
                  /\ rp_pc' = "done"
             ELSE /\ rp_pc' = "resolved"
                  /\ UNCHANGED <<rp_finished, rp_events>>
    /\ UNCHANGED <<appVars, API_TOKEN, env_file, lsVars, slVars,
                   dwVars, rp_stop_id, rp_line_id>>

\* variant: a failed probe is reported like a failed resolution
ProbeFailureEmpty(area, name) == Terminal(<<>>, <<>>, <<>>)

\* lines 278-280: what the terminal event carries after a failed probe
ProbeFailureResult(area, name) == Terminal(area, name, <<>>)

\* lines 274-280 with 307-335: the live feed answers resp
RP_Probe(resp) ==
    /\ rp_pc = "resolved"
    /\ rp_requests' = Append(rp_requests,
                             [to |-> "feed",
                              params |-> FeedParams(rp_area, rp_line_id, API_TOKEN)])
    /\ rp_handled' = Append(rp_handled, [from |-> "feed", resp |-> resp])
    /\ IF resp.kind = "fail" THEN
          /\ rp_errors' = Append(rp_errors, "Erreur directions")
          /\ rp_finished' = Append(rp_finished, ProbeFailureResult(rp_area, rp_name))
          /\ rp_events' = rp_events \o <<"error", "finished">>
          /\ rp_pc' = "done"
       ELSE IF resp.kind = "notjson" THEN
          \* the ValueError of resp.json() is a RequestException in
          \* requests 2.27 and later, and is caught by no clause before
          \/ /\ rp_errors' = Append(rp_errors, "Erreur directions")
             /\ rp_finished' = Append(rp_finished, ProbeFailureResult(rp_area, rp_name))
             /\ rp_events' = rp_events \o <<"error", "finished">>
             /\ rp_pc' = "done"
          \/ /\ rp_pc' = "raised"
             /\ UNCHANGED <<rp_errors, rp_finished, rp_events>>
       ELSE IF ParseRaises(resp) THEN
          /\ rp_pc' = "raised"
          /\ UNCHANGED <<rp_errors, rp_finished, rp_events>>
       ELSE
          /\ rp_finished' = Append(rp_finished,
                                   Terminal(rp_area, rp_name, _probe_directions(resp)))
          /\ rp_events' = Append(rp_events, "finished")
          /\ rp_pc' = "done"
          /\ UNCHANGED rp_errors
    /\ UNCHANGED <<appVars, API_TOKEN, env_file, lsVars, slVars,
                   dwVars, rp_stop_id, rp_line_id, rp_area, rp_name>>

StopIds ==
    { <<"I", ":", "MSP", ":", "4", "3">>,
      <<"I", ":", "MSP", ":">>,
      <<"I", ":", "4", "2">>,
      <<"4", "2">> }

LineIds == {<<"C", "1">>, <<"C", "2">>}

JsonStr(text) == [tag |-> "str", text |-> text, num |-> 0]
JsonInt(num) == [tag |-> "int", text |-> <<>>, num |-> num]
JsonNull == [tag |-> "null", text |-> <<>>, num |-> 0]
JsonMissing == [tag |-> "absent", text |-> <<>>, num |-> 0]

CatalogRecord(arrname, zdaid) ==
    [kind |-> "record", arrname |-> arrname, zdaid |-> zdaid]

CatalogResponses ==
    { [kind |-> k, arrname |-> <<>>, zdaid |-> JsonMissing] :
          k \in {"fail", "badtype", "norecords"} }
    \cup { CatalogRecord(<<"P", "h">>, JsonStr(<<"5">>)),
           CatalogRecord(<<"P", "h">>, JsonInt(43)),
           CatalogRecord(<<>>, JsonInt(4)),
           CatalogRecord(<<"P", "h">>, JsonStr(<<>>)),
           CatalogRecord(<<"P", "h">>, JsonMissing),
           CatalogRecord(<<"P", "h">>, JsonNull) }

(***************************************************************************)
(* api.py: _natural_sort_key and LineSearchWorker.  A response of the line *)
(* catalog is a record [kind, records]: "fail" (RequestException),         *)
(* "badtype" (a payload on which run raises), "records" (the list under    *)
(* "results").  A line record is [id_line, shortname_line, name_line],     *)
(* a field being <<>> when missing or empty.                               *)
(***************************************************************************)
\* the length of the longest prefix of s made of digits (digits = TRUE) or
\* of other characters (digits = FALSE)
RECURSIVE RunLen(_, _)
RunLen(s, digits) ==
    IF s # <<>> /\ (IsDigit(Head(s)) <=> digits)
    THEN 1 + RunLen(Tail(s), digits)
    ELSE 0

\* re.split(r'(\d+)', text): text runs and digit runs alternate, a text run
\* (maybe empty) comes first and last
RECURSIVE ReSplit(_)
ReSplit(s) ==
    LET n == RunLen(s, FALSE)
        rest == SubSeq(s, n + 1, Len(s))
        m == RunLen(rest, TRUE)
    IN  IF rest = <<>> THEN <<SubSeq(s, 1, n)>>
        ELSE <<SubSeq(s, 1, n), SubSeq(rest, 1, m)>>
                 \o ReSplit(SubSeq(rest, m + 1, Len(rest)))

\* the characters str.isdigit() accepts that \d does not match and int()
\* rejects: "sup2" is the superscript two
DigitLike == {"sup2"}

\* c.isdigit()
IsDigits(c) ==
    c # <<>> /\ \A i \in 1..Len(c) : IsDigit(c[i]) \/ c[i] \in DigitLike

\* int(c) raises ValueError
IntRaises(c) == c = <<>> \/ \E i \in 1..Len(c) : ~IsDigit(c[i])

\* int(c)
RECURSIVE ToInt(_)
ToInt(c) ==
    IF c = <<>> THEN 0
    ELSE 10 * ToInt(SubSeq(c, 1, Len(c) - 1)) + DigitVal(c[Len(c)])

\* variant: every run is kept as lowercased text
KeyItemText(c) == [num |-> FALSE, n |-> 0, s |-> Lower(c)]

\* line 29: int(c) if c.isdigit() else c.lower()
KeyItem(c) ==
    IF IsDigits(c) THEN [num |-> TRUE, n |-> ToInt(c), s |-> <<>>]
    ELSE [num |-> FALSE, n |-> 0, s |-> Lower(c)]

\* lines 27-29
_natural_sort_key(text) ==
    LET chunks == ReSplit(text)
    IN  [i \in 1..Len(chunks) |-> KeyItem(chunks[i])]

\* lines 27-29: the comprehension raises the ValueError of int(c)
KeyRaises(text) ==
    LET chunks == ReSplit(text)
    IN  \E i \in 1..Len(chunks) : IsDigits(chunks[i]) /\ IntRaises(chunks[i])

\* x < y on two items of sort keys (of one type, by their positions)
ItemLess(x, y) == IF x.num /\ y.num THEN x.n < y.n ELSE StrLess(x.s, y.s)

\* Python's  a < b  on lists
RECURSIVE KeyLess(_, _)
KeyLess(a, b) ==
    IF b = <<>> THEN FALSE
    ELSE IF a = <<>> THEN TRUE
    ELSE IF Head(a) # Head(b) THEN ItemLess(Head(a), Head(b))
    ELSE KeyLess(Tail(a), Tail(b))

\* lines 185-192: the LineAtStop of one record
LineAtStop(record) ==
    [line_id |-> record.id_line,
     line_name |-> IF record.shortname_line # <<>> THEN record.shortname_line
                   ELSE record.name_line,
     route_id |-> <<"I", ":">> \o record.id_line]

\* list.sort(key=...) computes the key of each element once and is stable:
\* x goes after every element whose key is not greater
RECURSIVE InsertKeyed(_, _)
InsertKeyed(sorted, x) ==
    IF sorted = <<>> THEN <<x>>
    ELSE IF KeyLess(x.key, Head(sorted).key) THEN <<x>> \o sorted
    ELSE <<Head(sorted)>> \o InsertKeyed(Tail(sorted), x)

RECURSIVE SortKeyedFrom(_, _)
SortKeyedFrom(sorted, rest) ==
    IF rest = <<>> THEN sorted
    ELSE SortKeyedFrom(InsertKeyed(sorted, Head(rest)), Tail(rest))

\* lines 182-194
LineResults(records) ==
    LET keyed == [i \in 1..Len(records) |->
                    [key |-> _natural_sort_key(LineAtStop(records[i]).line_name),
                     item |-> LineAtStop(records[i])]]
        sorted == SortKeyedFrom(<<>>, keyed)
    IN  [i \in 1..Len(sorted) |-> sorted[i].item]

\* lines 167-177: the query of the line search
RECURSIVE JoinAnd(_)
JoinAnd(parts) ==
    IF Len(parts) = 1 THEN parts[1]
    ELSE parts[1] \o <<" AND ">> \o JoinAnd(Tail(parts))

LineSearchParams(query, mode) ==
    LET where_parts ==
            (IF query # <<>> THEN <<<<"search(shortname_line,">> \o query \o <<")">>>>
             ELSE <<>>)
            \o (IF mode # <<>> THEN <<<<"transportmode=">> \o mode>> ELSE <<>>)
    IN  [limit |-> 20,
         where |-> IF where_parts # <<>> THEN JoinAnd(where_parts) ELSE <<>>]

LSInit(query, mode, search_id) ==
    /\ ls_query = query
    /\ ls_mode = mode
    /\ ls_search_id = search_id
    /\ ls_pc = "start"
    /\ ls_requests = <<>>
    /\ ls_handled = <<>>
    /\ ls_events = <<>>

\* lines 196-198: the signals of the except clause
LSFailureEvents(search_id) ==
    << [signal |-> "error", msg |-> "Erreur recherche"],
       [signal |-> "finished", results |-> <<>>, search_id |-> search_id] >>

\* lines 164-198: the line catalog answers resp
LS_Run(resp) ==
    /\ ls_pc = "start"
    /\ ls_requests' = Append(ls_requests, LineSearchParams(ls_query, ls_mode))
    /\ ls_handled' = Append(ls_handled, resp)
    /\ IF resp.kind = "fail" THEN
          /\ ls_events' = ls_events \o LSFailureEvents(ls_search_id)
          /\ ls_pc' = "done"
       ELSE IF resp.kind = "badtype" THEN
          /\ ls_pc' = "raised"
          /\ UNCHANGED ls_events
       ELSE IF \E i \in 1..Len(resp.records) :
                   KeyRaises(LineAtStop(resp.records[i]).line_name) THEN
          \* line 194: the ValueError of a sort key is caught by no clause
          /\ ls_pc' = "raised"
          /\ UNCHANGED ls_events
       ELSE
          /\ ls_events' = Append(ls_events,
                                 [signal |-> "finished",
                                  results |-> LineResults(resp.records),
                                  search_id |-> ls_search_id])
          /\ ls_pc' = "done"
    /\ UNCHANGED <<appVars, API_TOKEN, env_file, dwVars, rpVars, slVars,
                   ls_query, ls_mode, ls_search_id>>

(***************************************************************************)
(* api.py: StopsOnLineWorker.  A response of the stop-line catalog is a    *)
(* record [kind, records] as for the line catalog; a stop record is        *)
(* [stop_name, stop_id], a field being <<>> when missing or empty.         *)
(***************************************************************************)
\* lines 225-235: the loop over the records; stops is the list results and
\* seen the set of its names
RECURSIVE CollectStops(_, _)
CollectStops(stops, records) ==
    IF records = <<>> THEN stops
    ELSE LET name == Head(records).stop_name
             seen == {stops[i].stop_name : i \in 1..Len(stops)}
         IN  IF name = <<>> \/ name \in seen
             THEN CollectStops(stops, Tail(records))
             ELSE CollectStops(
                      Append(stops, [stop_name |-> name,
                                     stop_id |-> Head(records).stop_id]),
                      Tail(records))

\* list.sort is stable: x goes after every element whose name is not greater
RECURSIVE InsertStop(_, _)
InsertStop(sorted, x) ==
    IF sorted = <<>> THEN <<x>>
    ELSE IF StrLess(x.stop_name, Head(sorted).stop_name) THEN <<x>> \o sorted
    ELSE <<Head(sorted)>> \o InsertStop(Tail(sorted), x)

RECURSIVE SortStopsFrom(_, _)
SortStopsFrom(sorted, rest) ==
    IF rest = <<>> THEN sorted
    ELSE SortStopsFrom(InsertStop(sorted, Head(rest)), Tail(rest))

\* lines 225-237
StopResults(records) == SortStopsFrom(<<>>, CollectStops(<<>>, records))

\* lines 216-220: the query of the stop-line catalog
StopsParams(route_id) == [where |-> <<"id=">> \o route_id, limit |-> 100]

SLInit(route_id) ==
    /\ sl_route_id = route_id
    /\ sl_pc = "start"
    /\ sl_requests = <<>>
    /\ sl_handled = <<>>
    /\ sl_events = <<>>

\* variant: the except clause reports the error only
SLFailureErrorOnly == <<[signal |-> "error", msg |-> "Erreur arrets"]>>

\* lines 239-241: the signals of the except clause
SLFailureEvents ==
    << [signal |-> "error", msg |-> "Erreur arrets"],
       [signal |-> "finished", results |-> <<>>] >>

\* lines 213-241: the stop-line catalog answers resp
SL_Run(resp) ==
    /\ sl_pc = "start"
    /\ sl_requests' = Append(sl_requests, StopsParams(sl_route_id))
    /\ sl_handled' = Append(sl_handled, resp)
    /\ IF resp.kind = "fail" THEN
          /\ sl_events' = sl_events \o SLFailureEvents
          /\ sl_pc' = "done"
       ELSE IF resp.kind = "badtype" THEN
          /\ sl_pc' = "raised"
          /\ UNCHANGED sl_events
       ELSE
          /\ sl_events' = Append(sl_events,
                                 [signal |-> "finished",
                                  results |-> StopResults(resp.records)])
          /\ sl_pc' = "done"
    /\ UNCHANGED <<appVars, API_TOKEN, env_file, dwVars, rpVars, lsVars, sl_route_id>>

\* no LineSearchWorker exists
LSIdle ==
    /\ ls_query = <<>>
    /\ ls_mode = <<>>
    /\ ls_search_id = 0
    /\ ls_pc = "idle"
    /\ ls_requests = <<>>
    /\ ls_handled = <<>>
    /\ ls_events = <<>>

\* no StopsOnLineWorker exists
SLIdle ==
    /\ sl_route_id = <<>>
    /\ sl_pc = "idle"
    /\ sl_requests = <<>>
    /\ sl_handled = <<>>
    /\ sl_events = <<>>

\* no ResolveAndProbeWorker exists
RPIdle ==
    /\ rp_stop_id = <<>>
    /\ rp_line_id = <<>>
    /\ rp_pc = "idle"
    /\ rp_area = <<>>
    /\ rp_name = <<>>
    /\ rp_requests = <<>>
    /\ rp_handled = <<>>
    /\ rp_errors = <<>>
    /\ rp_finished = <<>>
    /\ rp_events = <<>>

(***************************************************************************)
(* models.py: is_same_place as a function of any two strings, called in    *)
(* both orders of its arguments.                                           *)
(***************************************************************************)
SPInit(a, b) ==
    /\ sp_pc = "start"
    /\ sp_a = a
    /\ sp_b = b
    /\ sp_out = FALSE
    /\ sp_swapped = FALSE

\* models.py 21-25, called as is_same_place(a, b) and is_same_place(b, a)
SP_Call ==
    /\ sp_pc = "start"
    /\ sp_pc' = "done"
    /\ sp_out' = is_same_place(sp_a, sp_b)
    /\ sp_swapped' = is_same_place(sp_b, sp_a)
    /\ UNCHANGED <<notSp, sp_a, sp_b>>

\* is_same_place is not being called
SPIdle ==
    /\ sp_pc = "idle"
    /\ sp_a = <<>>
    /\ sp_b = <<>>
    /\ sp_out = FALSE
    /\ sp_swapped = FALSE

(***************************************************************************)
(* main.py: MainWindow.  The state kept is the list of favourites, the     *)
(* favourites file, departure_map, the workers launched with their         *)
(* threads, the two lists that keep them referenced and the next-refresh   *)
(* label of the home screen; the rest of the display is left out.          *)
(* mw_ops counts the handlers run and mw_last names the last one.          *)
(***************************************************************************)
\* the same stop, line and destination as FavA, another direction
FavF == Fav(<<"5">>, <<"P", "h">>, <<"C", "2">>, <<"2">>, <<"S", "e">>)

MwFavPool == {FavA, FavC, FavF}

\* variant: the test for a duplicate compares the composite keys
AlreadyPresentByKey(favs, fav) ==
    \E i \in 1..Len(favs) : FavKey(favs[i]) = FavKey(fav)

\* main.py 164-167: the test for a duplicate
AlreadyPresent(favs, fav) ==
    \E i \in 1..Len(favs) : Identity(favs[i]) = Identity(fav)

\* main.py 177-182: the list without the favourites of fav's identity
WithoutFavourite(favs, fav) ==
    LET Kept(f) == Identity(f) # Identity(fav) IN SelectSeq(favs, Kept)

\* dict.pop(key, None)
Pop(map, key) == [k \in DOMAIN map \ {key} |-> map[k]]

\* dict.update(other)
Update(map, other) ==
    [k \in DOMAIN map \cup DOMAIN other |->
        IF k \in DOMAIN other THEN other[k] ELSE map[k]]

\* variant: nothing is removed
RemoveNothing(list, x) == list

\* list.remove(x) behind  if x in list
Remove(list, x) == LET Other(y) == y # x IN SelectSeq(list, Other)

NoFav == <<>>

Handler(op, fav, hour) == [op |-> op, fav |-> fav, hour |-> hour]

\* a worker moved to its thread and started
NewWorker(kind, favs) ==
    [kind |-> kind, favs |-> favs, st |-> "running", out |-> EmptyMap]

\* main.py 194-202 with api.py 413-420
_launch_worker(kind, favs) ==
    /\ Len(mw_workers) < MaxLaunches
    /\ mw_workers' = Append(mw_workers, NewWorker(kind, favs))
    /\ mw_active_threads' = Append(mw_active_threads, Len(mw_workers) + 1)
    /\ mw_active_workers' = Append(mw_active_workers, Len(mw_workers) + 1)

\* main.py 206-212, on the list favs
_refresh_departures(favs) ==
    IF favs = <<>>
    THEN UNCHANGED <<mw_workers, mw_active_threads, mw_active_workers>>
    ELSE _launch_worker("departures", favs)

Handled(op, fav, hour) ==
    /\ mw_ops < MaxOps
    /\ mw_ops' = mw_ops + 1
    /\ mw_last' = Handler(op, fav, hour)

\* main.py 162-174
_on_favourite_added(fav) ==
    /\ Handled("add", fav, 0)
    /\ IF AlreadyPresent(mw_favourites, fav)
       THEN UNCHANGED <<mw_favourites, mw_file, mw_saves,
                        mw_workers, mw_active_threads, mw_active_workers>>
       ELSE /\ mw_favourites' = Append(mw_favourites, fav)
            /\ mw_file' = mw_favourites'
            /\ mw_saves' = mw_saves + 1
            /\ _refresh_departures(mw_favourites')
    /\ UNCHANGED <<notMw, mw_queue, departure_map, next_refresh, next_refresh_epoch>>

\* main.py 176-187
_delete_favourite(fav) ==
    /\ Handled("delete", fav, 0)
    /\ mw_favourites' = WithoutFavourite(mw_favourites, fav)
    /\ mw_file' = mw_favourites'
    /\ mw_saves' = mw_saves + 1
    /\ departure_map' = Pop(departure_map, FavKey(fav))
    /\ UNCHANGED <<notMw, mw_queue, mw_workers, mw_active_threads,
                   mw_active_workers, next_refresh, next_refresh_epoch>>

\* main.py 63 and 274: the refresh button, the wake-up and the first fetch
MW_Refresh ==
    /\ Handled("refresh", NoFav, 0)
    /\ _refresh_departures(mw_favourites)
    /\ UNCHANGED <<notMw, mw_queue, mw_favourites, mw_file, mw_saves,
                   departure_map, next_refresh, next_refresh_epoch>>

\* variant: the pause lasts until the end of hour 5
NightPauseInclusive(hour) == 2 <= hour /\ hour <= 5

\* main.py 229: if 2 <= hour < 5
NightPause(hour) == 2 <= hour /\ hour < 5

\* main.py 226-232; hour is datetime.now().hour
_auto_refresh(hour) ==
    /\ Handled("tick", NoFav, hour)
    /\ IF NightPause(hour)
       THEN /\ next_refresh' = "Pause nocturne"
            /\ UNCHANGED <<mw_workers, mw_active_threads, mw_active_workers>>
       ELSE /\ _refresh_departures(mw_favourites)
            /\ UNCHANGED next_refresh
    /\ UNCHANGED <<notMw, mw_queue, mw_favourites, mw_file, mw_saves,
                   departure_map, next_refresh_epoch>>

\* variant: the refresh timer is left running
_enter_sleep_countdown_only ==
    /\ _sleeping' = TRUE
    /\ countdown_timer' = FALSE
    /\ UNCHANGED refresh_timer

\* main.py 258-261
_enter_sleep ==
    /\ _sleeping' = TRUE
    /\ refresh_timer' = FALSE
    /\ countdown_timer' = FALSE

\* main.py 251-253; idle is time.time() - _last_interaction_time in seconds
SleepDue(idle) ==
    /\ sleep_delay_minutes > 0
    /\ ~_sleeping
    /\ stack_index = 0
    /\ idle > sleep_delay_minutes * 60

\* main.py 235-254: the label of the next refresh, then the sleep check
_on_countdown_tick(idle) ==
    /\ Handled("countdown", NoFav, 0)
    /\ IF next_refresh_epoch
       THEN \E text \in {"MaJ dans", ""} : next_refresh' = text
       ELSE UNCHANGED next_refresh
    /\ IF SleepDue(idle)
       THEN _enter_sleep
       ELSE UNCHANGED <<_sleeping, refresh_timer, countdown_timer>>
    /\ UNCHANGED <<notWindow, stack_index, sleep_delay_minutes,
                   mw_queue, mw_favourites, mw_file, mw_saves,
                   departure_map, next_refresh_epoch, mw_workers,
                   mw_active_threads, mw_active_workers>>

\* main.py 267-274: the overlay is shown while the window sleeps, and tapped
_wake_up ==
    /\ _sleeping
    /\ _sleeping' = FALSE
    /\ refresh_timer' = TRUE
    /\ countdown_timer' = TRUE
    /\ _refresh_departures(mw_favourites)
    /\ UNCHANGED <<notWindow, stack_index, sleep_delay_minutes,
                   mw_queue, mw_favourites, mw_file, mw_saves, departure_map,
                   next_refresh, next_refresh_epoch, mw_ops, mw_last>>

\* main.py 103: the refresh timer fires
refresh_timer_timeout(hour) == refresh_timer /\ _auto_refresh(hour)

\* main.py 111: the countdown timer fires
countdown_timer_timeout(idle) == countdown_timer /\ _on_countdown_tick(idle)

\* main.py 149-158: the page of the stack is changed to index
_show(index) ==
    /\ stack_index # index
    /\ stack_index' = index
    /\ UNCHANGED <<workerVars, spVars, mwVars, pfVars, ssVars, dcVars,
                   _sleeping, refresh_timer, countdown_timer,
                   sleep_delay_minutes>>

\* main.py 293-294
_on_sleep_delay_changed(minutes) ==
    /\ sleep_delay_minutes # minutes
    /\ sleep_delay_minutes' = minutes
    /\ UNCHANGED <<workerVars, spVars, mwVars, pfVars, ssVars, dcVars,
                   _sleeping, refresh_timer, countdown_timer, stack_index>>

\* main.py 43-45 and 99-112: the state __init__ leaves
SleepInit(minutes) ==
    /\ _sleeping = FALSE
    /\ refresh_timer = TRUE
    /\ countdown_timer = TRUE
    /\ stack_index = 0
    /\ sleep_delay_minutes = minutes

\* the sleep mode is disabled
SleepIdle == SleepInit(0)

\* main.py 302-313: a search or WiFi worker is launched
MW_LaunchOther ==
    /\ Handled("search", NoFav, 0)
    /\ _launch_worker("other", <<>>)
    /\ UNCHANGED <<notMw, mw_queue, mw_favourites, mw_file, mw_saves,
                   departure_map, next_refresh, next_refresh_epoch>>

\* a call of a slot for worker k, queued in the main thread
Call(slot, k) == [slot |-> slot, k |-> k]

\* the event loop of the main thread takes the call at the head of its queue
Dispatch(call) ==
    /\ mw_queue # <<>>
    /\ Head(mw_queue) = call
    /\ mw_queue' = Tail(mw_queue)

SetWorker(k, st, out) ==
    mw_workers' = [mw_workers EXCEPT ![k].st = st, ![k].out = out]

GroupKeys(favs) == {GroupKey(favs[i]) : i \in 1..Len(favs)}

\* api.py 54-88: the dict emitted by worker k holds a list under the key of
\* every favourite whose group was fetched; the list is named by k
Emitted(k, favs, fetched) ==
    LET keys == {FavKey(favs[i]) : i \in {j \in 1..Len(favs) : GroupKey(favs[j]) \in fetched}}
    IN [key \in keys |-> k]

\* the run of worker k ends: it emits its terminal event, or it raised
\* before emitting it
W_Run(k) ==
    /\ k \in 1..Len(mw_workers)
    /\ mw_workers[k].st = "running"
    /\ \/ /\ \E fetched \in SUBSET GroupKeys(mw_workers[k].favs) :
                 SetWorker(k, "emitted", Emitted(k, mw_workers[k].favs, fetched))
          /\ mw_queue' = mw_queue \o <<Call("on_finished", k), Call("quit", k)>>
       \/ SetWorker(k, "raised", EmptyMap) /\ UNCHANGED mw_queue
    /\ UNCHANGED <<notMw, mw_favourites, mw_file, mw_saves,
                   departure_map, next_refresh, next_refresh_epoch,
                   mw_active_threads, mw_active_workers, mw_ops, mw_last>>

\* variant: the map is replaced by the delivered one
_on_departures_replaced(map, dep_map) == dep_map

\* main.py 214-215: self.departure_map.update(dep_map)
_on_departures_received(map, dep_map) == Update(map, dep_map)

\* the slot connected to finished first (main.py 196) runs in the main thread
MW_Deliver(k) ==
    /\ k \in 1..Len(mw_workers)
    /\ mw_workers[k].st = "emitted"
    /\ Dispatch(Call("on_finished", k))
    /\ SetWorker(k, "delivered", mw_workers[k].out)
    /\ IF mw_workers[k].kind = "departures"
       THEN /\ departure_map' = _on_departures_received(departure_map, mw_workers[k].out)
            /\ next_refresh_epoch' = TRUE
       ELSE UNCHANGED <<departure_map, next_refresh_epoch>>
    /\ UNCHANGED <<notMw, mw_favourites, mw_file, mw_saves,
                   next_refresh, mw_active_threads, mw_active_workers,
                   mw_ops, mw_last>>

\* api.py 418: the slot connected to finished next is thread.quit
ThreadQuit(k) ==
    /\ k \in 1..Len(mw_workers)
    /\ mw_workers[k].st = "delivered"
    /\ Dispatch(Call("quit", k))
    /\ SetWorker(k, "quit", mw_workers[k].out)
    /\ UNCHANGED <<notMw, mw_favourites, mw_file, mw_saves,
                   departure_map, next_refresh, next_refresh_epoch,
                   mw_active_threads, mw_active_workers, mw_ops, mw_last>>

\* the event loop of the thread returns and the thread emits finished
ThreadFinished(k) ==
    /\ k \in 1..Len(mw_workers)
    /\ mw_workers[k].st = "quit"
    /\ mw_queue' = Append(mw_queue, Call("cleanup", k))
    /\ SetWorker(k, "finished", mw_workers[k].out)
    /\ UNCHANGED <<notMw, mw_favourites, mw_file, mw_saves,
                   departure_map, next_refresh, next_refresh_epoch,
                   mw_active_threads, mw_active_workers, mw_ops, mw_last>>

\* main.py 322-326, called by the lambda of main.py 202
_cleanup_worker(k) ==
    /\ k \in 1..Len(mw_workers)
    /\ mw_workers[k].st = "finished"
    /\ Dispatch(Call("cleanup", k))
    /\ SetWorker(k, "cleaned", mw_workers[k].out)
    /\ mw_active_threads' = Remove(mw_active_threads, k)
    /\ mw_active_workers' = Remove(mw_active_workers, k)
    /\ UNCHANGED <<notMw, mw_favourites, mw_file, mw_saves,
                   departure_map, next_refresh, next_refresh_epoch,
                   mw_ops, mw_last>>

\* main.py 34-53: MainWindow.__init__ with the favourites loaded
MWInit(favs) ==
    /\ mw_favourites = favs
    /\ mw_file = favs
    /\ mw_saves = 0
    /\ departure_map = EmptyMap
    /\ mw_workers = <<>>
    /\ mw_active_threads = <<>>
    /\ mw_active_workers = <<>>
    /\ mw_queue = <<>>
    /\ next_refresh = ""
    /\ next_refresh_epoch = FALSE
    /\ mw_ops = 0
    /\ mw_last = Handler("init", NoFav, 0)

\* no window
MWIdle == MWInit(<<>>)

(***************************************************************************)
(* models.py: load_favourites and save_favourites.  The favourites file    *)
(* is missing, holds bytes that are not UTF-8, holds text that is not      *)
(* JSON, or holds a JSON document whose strings are kept as written in     *)
(* the file, with their escapes.                                           *)
(***************************************************************************)
\* json.dump: the characters of a string as written between the quotes
JsonEscapeChar(c) ==
    CASE c = "quote" -> <<"backslash", "quote">>
      [] c = "backslash" -> <<"backslash", "backslash">>
      [] c = "LF" -> <<"backslash", "n">>
      [] OTHER -> <<c>>

RECURSIVE JsonEscape(_)
JsonEscape(s) ==
    IF s = <<>> THEN <<>> ELSE JsonEscapeChar(Head(s)) \o JsonEscape(Tail(s))

\* the character an escape sequence stands for
Unescaped(c) == IF c = "n" THEN "LF" ELSE c

\* json.load: the string written as text between the quotes
RECURSIVE JsonUnescape(_)
JsonUnescape(text) ==
    IF text = <<>> THEN <<>>
    ELSE IF Head(text) = "backslash"
         THEN <<Unescaped(text[2])>> \o JsonUnescape(Tail(Tail(text)))
         ELSE <<Head(text)>> \o JsonUnescape(Tail(text))

\* whether a text between quotes is a JSON string
RECURSIVE ValidJsonText(_)
ValidJsonText(text) ==
    IF text = <<>> THEN TRUE
    ELSE IF Head(text) = "backslash"
         THEN /\ Len(text) >= 2
              /\ text[2] \in {"quote", "backslash", "n"}
              /\ ValidJsonText(Tail(Tail(text)))
         ELSE Head(text) \notin {"quote", "LF"} /\ ValidJsonText(Tail(text))

JsonObject(members) == [tag |-> "object", members |-> members]
JsonArray(items) == [tag |-> "array", items |-> items]

RECURSIVE ValidJson(_)
ValidJson(v) ==
    CASE v.tag = "str" -> ValidJsonText(v.text)
      [] v.tag = "array" -> \A i \in 1..Len(v.items) : ValidJson(v.items[i])
      [] v.tag = "object" -> \A k \in DOMAIN v.members : ValidJson(v.members[k])
      [] OTHER -> TRUE

\* the Python value json.load builds from a document
RECURSIVE JsonLoad(_)
JsonLoad(v) ==
    CASE v.tag = "str" -> JsonStr(JsonUnescape(v.text))
      [] v.tag = "array" -> JsonArray([i \in 1..Len(v.items) |-> JsonLoad(v.items[i])])
      [] v.tag = "object" -> JsonObject([k \in DOMAIN v.members |-> JsonLoad(v.members[k])])
      [] OTHER -> v

\* models.py 28-37: the fields of Favourite, those without a default first
RequiredFields == {"stop_area_id", "stop_name", "line_id", "line_name"}

DefaultedFields ==
    {"line_color", "line_text_color", "direction", "destination_name"}

FavouriteFields == RequiredFields \cup DefaultedFields

DefaultOf(field) ==
    CASE field = "line_color" -> <<"F", "F", "F", "F", "F", "F">>
      [] field = "line_text_color" -> <<"0", "0", "0", "0", "0", "0">>
      [] OTHER -> <<>>

\* Favourite(stop_area_id, stop_name, line_id, line_name, direction=...,
\* destination_name=...)
Favourite(sa, stop, line, name, dir, dest) ==
    [stop_area_id |-> sa, stop_name |-> stop, line_id |-> line,
     line_name |-> name, line_color |-> DefaultOf("line_color"),
     line_text_color |-> DefaultOf("line_text_color"),
     direction |-> dir, destination_name |-> dest]

\* a Python value as a field of a dataclass: a str is its text
FieldValue(v) == IF v.tag = "str" THEN v.text ELSE v

\* whether Favourite(**item) returns
Constructs(item) ==
    /\ item.tag = "object"
    /\ DOMAIN item.members \subseteq FavouriteFields
    /\ RequiredFields \subseteq DOMAIN item.members

\* Favourite(**item)
FromItem(item) ==
    [f \in FavouriteFields |->
        IF f \in DOMAIN item.members THEN FieldValue(item.members[f])
        ELSE DefaultOf(f)]

Returned(value) == [raised |-> "no", value |-> value]
Raised(name) == [raised |-> name, value |-> <<>>]

\* models.py 76: [Favourite(**item) for item in data]
BuildFavourites(data) ==
    CASE data.tag = "array" ->
            IF \A i \in 1..Len(data.items) : Constructs(data.items[i])
            THEN Returned([i \in 1..Len(data.items) |-> FromItem(data.items[i])])
            ELSE Raised("TypeError")
      [] data.tag = "object" ->
            IF DOMAIN data.members = {} THEN Returned(<<>>) ELSE Raised("TypeError")
      [] data.tag = "str" ->
            IF data.text = <<>> THEN Returned(<<>>) ELSE Raised("TypeError")
      [] OTHER -> Raised("TypeError")

\* models.py 74-76: the body of the try
TryLoad(file) ==
    CASE file.kind = "bytes" -> Raised("UnicodeDecodeError")
      [] file.kind = "text" -> Raised("JSONDecodeError")
      [] OTHER -> IF ValidJson(file.value) THEN BuildFavourites(JsonLoad(file.value))
                  ELSE Raised("JSONDecodeError")

\* models.py 77: except (json.JSONDecodeError, TypeError, KeyError)
Caught(name) == name \in {"JSONDecodeError", "TypeError", "KeyError"}

\* models.py 69-78
load_favourites(file) ==
    IF file.kind = "missing" THEN Returned(<<>>)
    ELSE LET tried == TryLoad(file)
         IN IF tried.raised # "no" /\ Caught(tried.raised) THEN Returned(<<>>)
            ELSE tried

\* models.py 84: asdict(fav) as json.dump writes it
AsDict(fav) ==
    JsonObject([f \in DOMAIN fav |-> JsonStr(JsonEscape(fav[f]))])

JsonFile(value) == [kind |-> "json", value |-> value]

\* models.py 81-84: the file save_favourites writes
save_favourites(favs) ==
    JsonFile(JsonArray([i \in 1..Len(favs) |-> AsDict(favs[i])]))

PFInit(file, favs) ==
    /\ pf_pc = "start"
    /\ pf_file = file
    /\ pf_favourites = favs
    /\ pf_out = Returned(<<>>)

\* save_favourites(favourites)
PF_Save ==
    /\ pf_pc = "start"
    /\ pf_pc' = "saved"
    /\ pf_file' = save_favourites(pf_favourites)
    /\ UNCHANGED <<notPf, pf_favourites, pf_out>>

\* load_favourites(), on the file as found or after the save
PF_Load ==
    /\ pf_pc \in {"start", "saved"}
    /\ pf_pc' = IF pf_pc = "start" THEN "loaded" ELSE "reloaded"
    /\ pf_out' = load_favourites(pf_file)
    /\ UNCHANGED <<notPf, pf_file, pf_favourites>>

\* nothing is loaded or saved
PFIdle ==
    /\ pf_pc = "idle"
    /\ pf_file = [kind |-> "missing"]
    /\ pf_favourites = <<>>
    /\ pf_out = Returned(<<>>)

(***************************************************************************)
(* widgets.py: SearchScreen.  The state kept is the index of the page      *)
(* shown by the stack of the screen, the selections and the resolved stop  *)
(* area.  A button is pressed on the page that shows it.  ss_last names    *)
(* the last handler run with the signals it emitted, and its flip changes  *)
(* at every run.                                                           *)
(***************************************************************************)
None == "None"

Modes == {"bus", "rail"}

Lines == {"C1", "C2"}

Stops == {"s1", "s2"}

\* the stop area the catalog gives for a stop
AreaOf(stop) == IF stop = "s1" THEN "7" ELSE "8"

\* api.py 277-291: what a resolution of a stop reports, "" when it failed
Resolution(stop, ok) == IF ok THEN AreaOf(stop) ELSE ""

NoFavourite == [stop_area_id |-> "", line_id |-> None]

RanWith(op, emitted, fav) ==
    ss_last' = [op |-> op, emitted |-> emitted, fav |-> fav,
                flip |-> 1 - ss_last.flip]

Ran(op, emitted) == RanWith(op, emitted, NoFavourite)

\* the list without its element i
Without(list, i) == SubSeq(list, 1, i - 1) \o SubSeq(list, i + 1, Len(list))

\* variant: the back button returns to the first page
FirstPage(idx) == 0

\* widgets.py 822: the page the back button shows
PreviousPage(idx) == idx - 1

\* widgets.py 817-822
_go_back ==
    /\ IF ss_page = 0
       THEN Ran("back", <<"back_to_home">>) /\ UNCHANGED ss_page
       ELSE Ran("back", <<>>) /\ ss_page' = PreviousPage(ss_page)
    /\ UNCHANGED <<notSs, selected_mode, selected_line, selected_stop,
                   resolved_stop_area_id, ss_probing>>

\* widgets.py 864-872
_on_mode_selected(mode) ==
    /\ ss_page = 0
    /\ selected_mode' = mode
    /\ ss_page' = 1
    /\ Ran("mode", <<"line_search_requested">>)
    /\ UNCHANGED <<notSs, selected_line, selected_stop, resolved_stop_area_id,
                   ss_probing>>

\* widgets.py 969-977
_on_line_selected(line) ==
    /\ ss_page = 1
    /\ selected_line' = line
    /\ ss_page' = 2
    /\ Ran("line", <<"stops_on_line_requested">>)
    /\ UNCHANGED <<notSs, selected_mode, selected_stop, resolved_stop_area_id,
                   ss_probing>>

\* widgets.py 1052-1063
_on_stop_selected(stop) ==
    /\ ss_page = 2
    /\ selected_stop' = stop
    /\ resolved_stop_area_id' = ""
    /\ ss_page' = 3
    /\ Len(ss_probing) < MaxProbes
    /\ ss_probing' = Append(ss_probing, stop)
    /\ Ran("stop", <<"resolve_and_probe_requested">>)
    /\ UNCHANGED <<notSs, selected_mode, selected_line>>

\* widgets.py 1097-1105: the terminal event of the resolution in flight at
\* position i arrives, whichever stop is selected by now
on_directions_results(i, ok) ==
    /\ i \in 1..Len(ss_probing)
    /\ resolved_stop_area_id' = Resolution(ss_probing[i], ok)
    /\ ss_probing' = Without(ss_probing, i)
    /\ Ran("directions", <<>>)
    /\ UNCHANGED <<notSs, ss_page, selected_mode, selected_line, selected_stop>>

\* variant: the resolved stop area is not looked at
CanAddAnyArea(line, stop_area_id) == line # None

\* widgets.py 1150: not (not selected_line or not _resolved_stop_area_id)
CanAdd(line, stop_area_id) == line # None /\ stop_area_id # ""

\* widgets.py 1149-1163
_on_direction_selected ==
    /\ ss_page = 3
    /\ IF CanAdd(selected_line, resolved_stop_area_id)
       THEN RanWith("direction", <<"favourite_added">>,
                    [stop_area_id |-> resolved_stop_area_id,
                     line_id |-> selected_line])
       ELSE Ran("direction", <<>>)
    /\ UNCHANGED <<notSs, ss_page, selected_mode, selected_line,
                   selected_stop, resolved_stop_area_id, ss_probing>>

\* widgets.py 1195-1211
reset ==
    /\ selected_mode' = ""
    /\ selected_line' = None
    /\ selected_stop' = None
    /\ resolved_stop_area_id' = ""
    /\ ss_page' = 0
    /\ Ran("reset", <<>>)
    /\ UNCHANGED <<notSs, ss_probing>>

\* widgets.py 771-797: SearchScreen.__init__
SSInit ==
    /\ ss_page = 0
    /\ selected_mode = ""
    /\ selected_line = None
    /\ selected_stop = None
    /\ resolved_stop_area_id = ""
    /\ ss_probing = <<>>
    /\ ss_last = [op |-> "init", emitted |-> <<>>, fav |-> NoFavourite, flip |-> 0]

\* the search screen is not used
SSIdle == SSInit

(***************************************************************************)
(* widgets.py: DepartureCard.update_countdown.  Times are whole seconds;   *)
(* the colours of the label are left out.                                  *)
(***************************************************************************)
\* int(x / 60), which truncates toward zero
IntDiv60(x) == IF x >= 0 THEN x \div 60 ELSE 0 - ((0 - x) \div 60)

\* variant: the departure counts as gone as soon as its time has passed
DepartedAtZero(remaining) == remaining < 0

\* widgets.py 120: if remaining < -30
Departed(remaining) == remaining < 0 - 30

\* widgets.py 112-135: the text of the countdown label at time now
CountdownText(eta_seconds, fetch_timestamp, now) ==
    IF eta_seconds <= 0 THEN <<"-", "-">>
    ELSE LET elapsed == now - fetch_timestamp
             remaining == eta_seconds - elapsed
         IN IF Departed(remaining) THEN <<"P", "a", "r", "t", "i">>
            ELSE IF remaining < 60 THEN <<"<", " ", "1", " ", "m", "i", "n">>
            ELSE Decimal(IntDiv60(remaining)) \o <<" ", "m", "i", "n">>

\* widgets.py 31-38 and 97: a card built at time now
DCInit(eta_seconds, fetch_timestamp, now) ==
    /\ dc_eta_seconds = eta_seconds
    /\ dc_fetch_timestamp = fetch_timestamp
    /\ dc_now = now
    /\ countdown_label = CountdownText(eta_seconds, fetch_timestamp, now)

\* time passes and the countdown tick calls update_countdown
update_countdown(dt) ==
    /\ dc_now + dt <= MaxClock
    /\ dc_now' = dc_now + dt
    /\ countdown_label' = CountdownText(dc_eta_seconds, dc_fetch_timestamp, dc_now')
    /\ UNCHANGED <<notDc, dc_eta_seconds, dc_fetch_timestamp>>

\* no card
DCIdle ==
    /\ dc_eta_seconds = 0
    /\ dc_fetch_timestamp = 0
    /\ dc_now = 0
    /\ countdown_label = <<>>

\* nothing outside the workers is in use
AppIdle == SPIdle /\ MWIdle /\ PFIdle /\ SSIdle /\ DCIdle /\ SleepIdle

Init ==
    \E favs \in SeqsUpTo(FavPool, MaxFavs) :
        DWInit(favs) /\ RPIdle /\ AppIdle /\ LSIdle /\ SLIdle

Next ==
    \/ DW_Group
    \/ \E resp \in RunResponses, ts \in FetchTimes : DW_Iter(resp, ts)
    \/ DW_Finish

Spec == Init /\ [][Next]_vars

(***************************************************************************)
(* The filter of one group on every short response: the favourites of one  *)
(* group, and every sequence of at most MaxVisits visits.                  *)
(***************************************************************************)
SameGroup(favs) ==
    \A i, j \in 1..Len(favs) : GroupKey(favs[i]) = GroupKey(favs[j])

InitFilter ==
    \E favs \in SeqsUpTo(FavPool, MaxGroupFavs) :
        /\ favs # <<>>
        /\ SameGroup(favs)
        /\ DWInit(favs)
        /\ RPIdle /\ AppIdle
        /\ LSIdle
        /\ SLIdle

NextFilter ==
    \/ DW_Group
    \/ \E resp \in Malformed, ts \in FetchTimes : DW_Iter(resp, ts)
    \/ /\ pc = "loop"
       /\ \E n \in 0..MaxVisits, ts \in FetchTimes :
             \E v \in [1..n -> VisitPool] : DW_Iter(Delivery(v), ts)
    \/ DW_Finish

SpecFilter == InitFilter /\ [][NextFilter]_vars

(***************************************************************************)
(* The ranking of one favourite on responses of up to MaxRankVisits visits *)
(* that differ in their expected time only.                                *)
(***************************************************************************)
InitRank == DWInit(<<FavB>>) /\ RPIdle /\ AppIdle /\ LSIdle /\ SLIdle

NextRank ==
    \/ DW_Group
    \/ \E resp \in Malformed, ts \in FetchTimes : DW_Iter(resp, ts)
    \/ /\ pc = "loop"
       /\ \E n \in 0..MaxRankVisits, ts \in FetchTimes :
             \E v \in [1..n -> RankVisits] : DW_Iter(Delivery(v), ts)
    \/ DW_Finish

SpecRank == InitRank /\ [][NextRank]_vars

(***************************************************************************)
(* The time fields: one favourite on responses of up to MaxEtaVisits       *)
(* visits that differ in their three time fields only, each of which is    *)
(* missing, in the past of the later fetch, in the future, or (the first)  *)
(* not an ISO string.                                                      *)
(***************************************************************************)
EtaVisits ==
    {Visit(AsList(NameNa), edt, eat, adt, <<"2">>) :
        edt \in {<<>>, T07, T09, Garbled}, eat \in {<<>>, T07},
        adt \in {<<>>, T09}}

InitEta == DWInit(<<FavB>>) /\ RPIdle /\ AppIdle /\ LSIdle /\ SLIdle

NextEta ==
    \/ DW_Group
    \/ \E resp \in Malformed, ts \in FetchTimes : DW_Iter(resp, ts)
    \/ /\ pc = "loop"
       /\ \E n \in 0..MaxEtaVisits, ts \in FetchTimes :
             \E v \in [1..n -> EtaVisits] : DW_Iter(Delivery(v), ts)
    \/ DW_Finish

SpecEta == InitEta /\ [][NextEta]_vars

(***************************************************************************)
(* The credential: an aggregation pass over three groups and a direction   *)
(* probe of a rail stop, while the settings screen saves tokens.           *)
(***************************************************************************)
\* variant: the token is written to the .env file only
save_api_token_file_only(token) ==
    /\ env_file' = token
    /\ UNCHANGED <<appVars, API_TOKEN, dwVars, rpVars, lsVars, slVars>>

\* models.py 115-122
save_api_token(token) ==
    /\ env_file' = token
    /\ API_TOKEN' = token
    /\ UNCHANGED <<appVars, dwVars, rpVars, lsVars, slVars>>

TokenResponses ==
    {[kind |-> "fail", visits |-> <<>>], Delivery(ScenarioA)}

InitToken ==
    /\ API_TOKEN = "key0"
    /\ env_file = "key0"
    /\ favourites = <<FavA, FavD, FavE>>
    /\ pc = "start"
    /\ groups = <<>>
    /\ gi = 1
    /\ results = EmptyMap
    /\ requests = <<>>
    /\ errors = <<>>
    /\ finished = <<>>
    /\ handled = <<>>
    /\ assigned = <<>>
    /\ RPInit(<<"I", ":", "MSP", ":", "4", "3">>, <<"C", "1">>) /\ AppIdle
    /\ LSIdle
    /\ SLIdle

NextToken ==
    \/ DW_Group
    \/ \E resp \in TokenResponses, ts \in FetchTimes : DW_Iter(resp, ts)
    \/ DW_Finish
    \/ RP_ResolveRail
    \/ \E resp \in TokenResponses : RP_Probe(resp)
    \/ \E token \in Tokens : save_api_token(token)

SpecToken == InitToken /\ [][NextToken]_vars

(***************************************************************************)
(* One run of LineSearchWorker, on every response of up to MaxLines        *)
(* distinct records.                                                       *)
(***************************************************************************)
LineRecord(id_line, shortname_line, name_line) ==
    [id_line |-> id_line, shortname_line |-> shortname_line,
     name_line |-> name_line]

LinePool ==
    { LineRecord(<<"a">>, <<"1", "0">>, <<"B", "1", "0">>),
      LineRecord(<<"b">>, <<"2">>, <<>>),
      LineRecord(<<"c">>, <<"1">>, <<>>),
      LineRecord(<<"d">>, <<"T", "1">>, <<>>),
      LineRecord(<<"e">>, <<"T", "3", "a">>, <<>>),
      LineRecord(<<"f">>, <<>>, <<"t", "2">>) }

Injective(f) == \A i, j \in DOMAIN f : f[i] = f[j] => i = j

LineResponse(records) == [kind |-> "records", records |-> records]

LineFailures == {[kind |-> k, records |-> <<>>] : k \in {"fail", "badtype"}}

InitSearch ==
    \E query \in {<<>>, <<"T">>}, mode \in {<<>>, <<"t", "r", "a", "m">>} :
        DWIdle /\ RPIdle /\ AppIdle /\ SLIdle /\ LSInit(query, mode, 7)

NextSearch ==
    \/ \E resp \in LineFailures : LS_Run(resp)
    \/ /\ ls_pc = "start"
       /\ \E n \in 0..MaxLines :
             \E records \in [1..n -> LinePool] :
                 Injective(records) /\ LS_Run(LineResponse(records))

SpecSearch == InitSearch /\ [][NextSearch]_vars

(***************************************************************************)
(* One run of StopsOnLineWorker, on every response of up to MaxStops       *)
(* records.                                                                *)
(***************************************************************************)
StopRecord(stop_name, stop_id) == [stop_name |-> stop_name, stop_id |-> stop_id]

StopPool ==
    { StopRecord(<<"P", "a">>, <<"1">>),
      StopRecord(<<"P", "a">>, <<"2">>),
      StopRecord(<<"N", "a">>, <<"3">>),
      StopRecord(<<"B", "a">>, <<>>),
      StopRecord(<<>>, <<"5">>),
      StopRecord(<<"E_acute", "t">>, <<"6">>),
      StopRecord(<<"b", "e">>, <<"7">>) }

RouteIds == {<<"I", ":", "C", "1">>, <<"I", ":", "C", "2">>}

InitStops ==
    \E route_id \in RouteIds : DWIdle /\ RPIdle /\ AppIdle /\ LSIdle /\ SLInit(route_id)

NextStops ==
    \/ \E resp \in LineFailures : SL_Run(resp)
    \/ /\ sl_pc = "start"
       /\ \E n \in 0..MaxStops :
             \E records \in [1..n -> StopPool] : SL_Run(LineResponse(records))

SpecStops == InitStops /\ [][NextStops]_vars

(***************************************************************************)
(* The two catalog workers side by side, on every outcome of their         *)
(* requests with up to MaxCatalogRecords records.                          *)
(***************************************************************************)
InitCatalog ==
    DWIdle /\ RPIdle /\ AppIdle /\ LSInit(<<"T">>, <<>>, 7) /\ SLInit(<<"I", ":", "C", "1">>)

NextCatalog ==
    \/ \E resp \in LineFailures : LS_Run(resp)
    \/ /\ ls_pc = "start"
       /\ \E n \in 0..MaxCatalogRecords :
             \E records \in [1..n -> LinePool] :
                 Injective(records) /\ LS_Run(LineResponse(records))
    \/ \E resp \in LineFailures : SL_Run(resp)
    \/ /\ sl_pc = "start"
       /\ \E n \in 0..MaxCatalogRecords :
             \E records \in [1..n -> StopPool] : SL_Run(LineResponse(records))

SpecCatalog == InitCatalog /\ [][NextCatalog]_vars

(***************************************************************************)
(* One run of ResolveAndProbeWorker, on any stop identifier.               *)
(***************************************************************************)
InitResolve ==
    \E stop_id \in StopIds, line_id \in LineIds :
        DWIdle /\ RPInit(stop_id, line_id) /\ AppIdle /\ LSIdle /\ SLIdle

NextResolve ==
    \/ RP_ResolveRail
    \/ \E cat \in CatalogResponses : RP_ResolveCatalog(cat)
    \/ \E resp \in Malformed : RP_Probe(resp)
    \/ /\ rp_pc = "resolved"
       /\ \E n \in 0..MaxProbeVisits :
             \E v \in [1..n -> VisitPool] : RP_Probe(Delivery(v))

SpecResolve == InitResolve /\ [][NextResolve]_vars

(***************************************************************************)
(* Specification of is_same_place on every pair of short names.            *)
(***************************************************************************)
PlaceChars == {"a", "b"}

PlaceNames == SeqsUpTo(PlaceChars, MaxPlaceLen)

InitPlace ==
    \E a \in PlaceNames, b \in PlaceNames :
        DWIdle /\ RPIdle /\ LSIdle /\ SLIdle /\ SleepIdle /\ MWIdle /\ PFIdle /\ SSIdle /\ DCIdle /\ SPInit(a, b)

NextPlace == SP_Call

SpecPlace == InitPlace /\ [][NextPlace]_vars

(***************************************************************************)
(* Specification of MainWindow: favourites added and deleted and           *)
(* departures refreshed, anywhere between the steps of the workers.        *)
(***************************************************************************)
NoDuplicates(favs) ==
    \A i \in 1..Len(favs), j \in 1..Len(favs) :
        i # j => Identity(favs[i]) # Identity(favs[j])

\* the lists load_favourites can return, without duplicates
LoadedFavourites ==
    {favs \in SeqsUpTo(MwFavPool, MaxMwFavs) : NoDuplicates(favs)}

WorkerIds == 1..MaxLaunches

\* the steps of worker k, of its thread and of the slots they trigger
WorkerStep(k) ==
    \/ W_Run(k)
    \/ MW_Deliver(k)
    \/ ThreadQuit(k)
    \/ ThreadFinished(k)
    \/ _cleanup_worker(k)

InitMain ==
    \E favs \in LoadedFavourites :
        DWIdle /\ RPIdle /\ LSIdle /\ SLIdle /\ SleepIdle /\ SPIdle /\ PFIdle /\ SSIdle /\ DCIdle /\ MWInit(favs)

NextMain ==
    \/ \E fav \in MwFavPool : _on_favourite_added(fav)
    \/ \E fav \in MwFavPool : _delete_favourite(fav)
    \/ MW_Refresh
    \/ \E k \in WorkerIds : WorkerStep(k)

SpecMain == InitMain /\ [][NextMain]_vars

(***************************************************************************)
(* Specification of the auto-refresh timer: it fires at any hour of the    *)
(* day, between the countdown ticks and the steps of the workers.          *)
(***************************************************************************)
Hours == 0..23

\* the seconds since the last touch, at a countdown tick
Idles == {0, 301, 601}

\* no favourite, one, and two that share a composite key
TickFavourites == {<<>>, <<FavA>>, <<FavA, FavC>>}

InitTick ==
    \E favs \in TickFavourites :
        DWIdle /\ RPIdle /\ LSIdle /\ SLIdle /\ SleepIdle /\ SPIdle /\ PFIdle /\ SSIdle /\ DCIdle /\ MWInit(favs)

NextTick ==
    \/ \E hour \in Hours : _auto_refresh(hour)
    \/ \E idle \in Idles : _on_countdown_tick(idle)
    \/ \E k \in WorkerIds : WorkerStep(k)

SpecTick == InitTick /\ [][NextTick]_vars

(***************************************************************************)
(* Specification of the favourites file: load_favourites on any file, and  *)
(* on the file save_favourites has just written.                           *)
(***************************************************************************)
\* names with a quote, a backslash, a line feed and an accented letter
NameQuoted == <<"a", "quote", "b">>
NameSlashed == <<"backslash", "n", "LF">>
NameAccented == <<"e_acute", " ", "backslash">>

SavedPool ==
    { Favourite(<<"5">>, NameQuoted, <<"C", "2">>, <<"2">>, <<"1">>, NameSlashed),
      Favourite(<<"5">>, NameAccented, <<"C", "2">>, <<"2">>, <<>>, <<>>),
      Favourite(<<"4">>, <<"a">>, <<"C", "1">>, NameSlashed, <<"2">>, NameQuoted) }

JsonItem(keys) == JsonObject([k \in keys |-> JsonStr(<<"a">>)])

\* the documents a favourites file can hold
JsonDocuments ==
    { JsonNull, JsonInt(5), JsonStr(<<>>), JsonStr(<<"a", "b">>),
      JsonStr(<<"backslash">>),
      JsonObject(EmptyMap), JsonItem({"a"}), JsonItem(FavouriteFields),
      JsonArray(<<>>), JsonArray(<<JsonInt(1)>>), JsonArray(<<JsonArray(<<>>)>>),
      JsonArray(<<JsonObject(EmptyMap)>>),
      JsonArray(<<JsonItem({"stop_area_id"})>>),
      JsonArray(<<JsonItem(RequiredFields \cup {"x"})>>),
      JsonArray(<<JsonItem(RequiredFields)>>),
      JsonArray(<<JsonItem(FavouriteFields), JsonItem(RequiredFields \cup {"direction"})>>),
      JsonArray(<<JsonItem(FavouriteFields), JsonInt(1)>>),
      JsonArray(<<JsonObject([k \in RequiredFields |-> JsonStr(<<"backslash", "x">>)])>>),
      JsonArray(<<JsonObject([k \in RequiredFields |-> JsonStr(<<"backslash", "n">>)])>>) }

Files ==
    {[kind |-> "missing"], [kind |-> "bytes"], [kind |-> "text"]}
        \cup {JsonFile(value) : value \in JsonDocuments}

InitPersist ==
    \E file \in Files, favs \in SeqsUpTo(SavedPool, MaxSaved) :
        DWIdle /\ RPIdle /\ LSIdle /\ SLIdle /\ SleepIdle /\ SPIdle /\ MWIdle /\ SSIdle /\ DCIdle /\ PFInit(file, favs)

NextPersist == PF_Save \/ PF_Load

SpecPersist == InitPersist /\ [][NextPersist]_vars

(***************************************************************************)
(* Specification of the search flow: the buttons of the four pages, the    *)
(* back button, the results of the resolutions and reset, in any order.    *)
(***************************************************************************)
InitFlow ==
    DWIdle /\ RPIdle /\ LSIdle /\ SLIdle /\ SleepIdle /\ SPIdle /\ MWIdle /\ PFIdle /\ DCIdle /\ SSInit

NextFlow ==
    \/ \E mode \in Modes : _on_mode_selected(mode)
    \/ \E line \in Lines : _on_line_selected(line)
    \/ \E stop \in Stops : _on_stop_selected(stop)
    \/ \E i \in 1..MaxProbes, ok \in BOOLEAN : on_directions_results(i, ok)
    \/ _on_direction_selected
    \/ _go_back
    \/ reset

SpecFlow == InitFlow /\ [][NextFlow]_vars

(***************************************************************************)
(* Specification of the worker lifecycle: departure, search and WiFi       *)
(* workers are launched and run to their end.  The event loop of the main  *)
(* thread delivers every queued call of a slot, and a thread told to quit  *)
(* leaves its event loop: these steps are weakly fair.  Nothing is assumed *)
(* about how long a worker runs.                                           *)
(***************************************************************************)
InitLife ==
    \E favs \in LoadedFavourites :
        DWIdle /\ RPIdle /\ LSIdle /\ SLIdle /\ SleepIdle /\ SPIdle /\ PFIdle /\ SSIdle /\ DCIdle /\ MWInit(favs)

NextLife ==
    \/ MW_Refresh
    \/ MW_LaunchOther
    \/ \E k \in WorkerIds : WorkerStep(k)

EventLoops ==
    \A k \in WorkerIds :
        /\ WF_vars(MW_Deliver(k))
        /\ WF_vars(ThreadQuit(k))
        /\ WF_vars(ThreadFinished(k))
        /\ WF_vars(_cleanup_worker(k))

SpecLife == InitLife /\ [][NextLife]_vars /\ EventLoops

(***************************************************************************)
(* Specification of the countdown of one card: the card is built from a    *)
(* departure fetched now or a minute ago, then time passes.                *)
(***************************************************************************)
FetchTime == 10

\* the seconds between two calls of update_countdown
Elapses == {1, 2, 45}

InitCountdown ==
    \E eta_seconds \in (0 - 2)..MaxEta, now \in {FetchTime, FetchTime + 60} :
        /\ DWIdle /\ RPIdle /\ LSIdle /\ SLIdle
        /\ SPIdle /\ MWIdle /\ PFIdle /\ SSIdle /\ SleepIdle
        /\ DCInit(eta_seconds, FetchTime, now)

NextCountdown == \E dt \in Elapses : update_countdown(dt)

SpecCountdown == InitCountdown /\ [][NextCountdown]_vars

(***************************************************************************)
(* The direction prober on visits with and without a destination name.     *)
(***************************************************************************)
ProbeVisitPool ==
    { Visit(AsList(NameMv), <<>>, <<>>, <<>>, <<"1">>),
      Visit(AsList(<<>>), <<>>, <<>>, <<>>, <<"1">>),
      Visit(AsList(Unknown), <<>>, <<>>, <<>>, <<"2">>),
      Visit(AsScalar(Unknown), <<>>, <<>>, <<>>, <<>>),
      Visit(Absent, <<>>, <<>>, <<>>, <<"2">>) }

InitProbe ==
    DWIdle /\ RPInit(<<"I", ":", "MSP", ":", "4", "3">>, <<"C", "1">>)
           /\ AppIdle /\ LSIdle /\ SLIdle

NextProbe ==
    \/ RP_ResolveRail
    \/ /\ rp_pc = "resolved"
       /\ \E n \in 0..MaxProbeVisits :
             \E v \in [1..n -> ProbeVisitPool] : RP_Probe(Delivery(v))

SpecProbe == InitProbe /\ [][NextProbe]_vars

(***************************************************************************)
(* One run of LineSearchWorker on records whose labels mix letters, digits *)
(* and a superscript digit.                                                *)
(***************************************************************************)
LabelPool ==
    { LineRecord(<<"a">>, <<"1", "0">>, <<>>),
      LineRecord(<<"b">>, <<"2">>, <<>>),
      LineRecord(<<"c">>, <<"T", "1">>, <<>>),
      LineRecord(<<"d">>, <<"T", "sup2">>, <<>>),
      LineRecord(<<"e">>, <<"1", "sup2">>, <<>>),
      LineRecord(<<"f">>, <<>>, <<"t", "1", "0", "a">>) }

InitLabels ==
    DWIdle /\ RPIdle /\ AppIdle /\ SLIdle /\ LSInit(<<>>, <<>>, 7)

NextLabels ==
    /\ ls_pc = "start"
    /\ \E n \in 0..MaxLines :
          \E records \in [1..n -> LabelPool] :
              Injective(records) /\ LS_Run(LineResponse(records))

SpecLabels == InitLabels /\ [][NextLabels]_vars

(***************************************************************************)
(* Specification of the sleep mode of the window: the two timers fire      *)
(* while they are active, the user changes page and sleep delay, and taps  *)
(* the overlay; the workers launched run between these steps.              *)
(***************************************************************************)
SLEEP_OPTIONS == {5, 10, 30, 0}

\* an hour of the day outside the night pause, and one inside
SleepHours == {1, 3}

InitSleep ==
    \E favs \in {<<>>, <<FavA>>}, minutes \in SLEEP_OPTIONS :
        DWIdle /\ RPIdle /\ LSIdle /\ SLIdle /\ SPIdle /\ PFIdle /\ SSIdle /\ DCIdle
            /\ MWInit(favs) /\ SleepInit(minutes)

NextSleep ==
    \/ \E hour \in SleepHours : refresh_timer_timeout(hour)
    \/ \E idle \in Idles : countdown_timer_timeout(idle)
    \/ _wake_up
    \/ \E index \in 0..2 : _show(index)
    \/ \E minutes \in SLEEP_OPTIONS : _on_sleep_delay_changed(minutes)
    \/ \E k \in WorkerIds : WorkerStep(k)

SpecSleep == InitSleep /\ [][NextSleep]_vars

(***************************************************************************)
(* Properties.                                                             *)
(***************************************************************************)
Elements(seq) == {seq[i] : i \in 1..Len(seq)}

RunEnded == pc \in {"done", "raised"}

\* the distinct (stop_area_id, line_id) pairs among the favourites
DistinctPairs ==
    {<<favourites[i].stop_area_id, favourites[i].line_id>> : i \in 1..Len(favourites)}

RequestsFor(pair) ==
    {j \in 1..Len(requests) :
        requests[j] = FeedParams(pair[1], pair[2], requests[j].apikey)}

ErrorsOf(i) == {j \in 1..Len(errors) : errors[j].group = i}

\* the conditions of section 4.5, step 3, in the words of the specification
SamePlace(a, b) == a # <<>> /\ b # <<>> /\ (IsSubstr(a, b) \/ IsSubstr(b, a))

ContainsIgnoringCase(text, part) == IsSubstr(Lower(part), Lower(text))

Eligible(fav, d) ==
    /\ d.eta_seconds >= 0
    /\ ContainsIgnoringCase(d.destination, fav.destination_name)
    /\ (fav.direction = <<>> \/ d.direction_ref = fav.direction)
    /\ ~SamePlace(normalize(fav.stop_name), normalize(d.destination))

\* the eligible departures of the response the entry a of assigned was
\* computed from
EligibleOf(a) == SelectSeq(handled[a.group].deps, LAMBDA d : Eligible(a.fav, d))

\* unless truncation applies, the list holds every eligible departure
HoldsEveryEligible(a) ==
    Len(EligibleOf(a)) <= MaxKept =>
        /\ Len(a.list) = Len(EligibleOf(a))
        /\ Elements(EligibleOf(a)) \subseteq Elements(a.list)

\* C1: at the end of a run, the number of live-feed requests equals the
\* number of distinct (stop_area_id, line_id) pairs of the favourites, and
\* every pair was requested exactly once.
C1_OneRequestPerPair ==
    RunEnded =>
        /\ Len(requests) = Cardinality(DistinctPairs)
        /\ \A p \in DistinctPairs : Cardinality(RequestsFor(p)) = 1

\* C2: a worker whose run has ended has emitted exactly one finished event,
\* and no worker ever emits two.
C2_OneTerminalEvent ==
    /\ Len(finished) <= 1
    /\ Len(rp_finished) <= 1
    /\ RunEnded => Len(finished) = 1
    /\ rp_pc \in {"done", "raised"} => Len(rp_finished) = 1

\* the pair the resolver returned in this run, from the identifier and the
\* catalog record
Resolved ==
    IF IsRail(rp_stop_id) THEN <<LastSegment(rp_stop_id), <<>>>>
    ELSE ResolveRecord(rp_handled[1].resp)

ProbeFailed ==
    /\ rp_handled # <<>>
    /\ rp_handled[Len(rp_handled)].from = "feed"
    /\ rp_handled[Len(rp_handled)].resp.kind = "fail"

\* C3: when the stop was resolved and the request of the direction probe
\* fails, the run ends with one terminal event carrying the resolved
\* stop-area id and stop name and no direction, and one error event.
C3_ProbeFailureKeepsStop ==
    ProbeFailed =>
        /\ rp_pc = "done"
        /\ Resolved[1] # <<>>
        /\ rp_finished = <<Terminal(Resolved[1], Resolved[2], <<>>)>>
        /\ Len(rp_errors) = 1

C3_Witness ==
    /\ ProbeFailed
    /\ ~IsRail(rp_stop_id)
    /\ rp_handled[1].resp.arrname # <<>>
    /\ rp_finished = <<Terminal(<<"5">>, <<"P", "h">>, <<>>)>>

FailedGroups == {i \in 1..Len(handled) : handled[i].kind = "fail"}

ParsedGroups ==
    {i \in 1..Len(handled) : handled[i].kind \in {"visits", "nokeys", "nodelivery"}}

\* C4: a group whose request fails is reported by exactly one error event,
\* the run goes on with the next group (it is never the failure that ends
\* the run, and a run that finishes has requested every group), and the
\* emitted mapping holds for every favourite of a group that was answered
\* the list computed from that group's own response alone.
C4_FailureIsolated ==
    /\ \A i \in FailedGroups :
          /\ Cardinality(ErrorsOf(i)) = 1
          /\ \A j \in ErrorsOf(i) : errors[j].msg = "Erreur reseau"
    /\ pc = "raised" => handled[Len(handled)].kind # "fail"
    /\ pc = "loop" /\ handled # <<>> /\ handled[Len(handled)].kind = "fail"
          => gi = Len(handled) + 1
    /\ pc = "done" =>
          /\ Len(handled) = Len(groups)
          /\ \A i \in ParsedGroups : \A k \in 1..Len(groups[i].favs) :
                LET key == FavKey(groups[i].favs[k])
                IN  /\ key \in DOMAIN finished[1]
                    /\ finished[1][key] =
                         Distribute(EmptyMap, groups[i].favs, handled[i].deps)[key]

C4_Witness ==
    /\ pc = "done"
    /\ Len(groups) = 3
    /\ handled[1].kind = "visits"
    /\ handled[2].kind = "fail"
    /\ handled[3].kind = "visits"
    /\ Len(errors) = 1
    /\ \E k \in 1..Len(groups[3].favs) :
          finished[1][FavKey(groups[3].favs[k])] # <<>>

\* C5: a group whose payload has an unexpected shape (missing keys, empty
\* delivery array, a value of an unexpected type) raises nothing, emits no
\* error event, and gives every favourite of the group an empty list.
C5_MalformedPayloadIsSilent ==
    \A i \in 1..Len(handled) :
        handled[i].kind \in {"nokeys", "nodelivery", "badtype"} =>
            /\ pc # "raised"
            /\ ErrorsOf(i) = {}
            /\ \A k \in 1..Len(groups[i].favs) :
                  /\ FavKey(groups[i].favs[k]) \in DOMAIN results
                  /\ results[FavKey(groups[i].favs[k])] = <<>>

DistinctIdentities ==
    \A i, j \in 1..Len(favourites) :
        i # j => Identity(favourites[i]) # Identity(favourites[j])

\* C6: for favourites of pairwise distinct identity, the emitted mapping
\* holds under the composite key of every favourite of an answered group
\* the list computed for that favourite, it has no key that is not the
\* composite key of a favourite, and no favourite gives an empty mapping
\* and no request.
C6_OwnListUnderOwnKey ==
    DistinctIdentities /\ pc = "done" =>
        /\ \A n \in 1..Len(assigned) :
              /\ FavKey(assigned[n].fav) \in DOMAIN finished[1]
              /\ finished[1][FavKey(assigned[n].fav)] = assigned[n].list
        /\ DOMAIN finished[1] \subseteq {FavKey(favourites[i]) : i \in 1..Len(favourites)}
        /\ favourites = <<>> => finished[1] = EmptyMap /\ requests = <<>>

\* C7: the list of a favourite with a non-empty direction holds only
\* departures of that direction, in the list computed for it and in the
\* mapping under its key; a favourite with direction "" is refused no
\* departure for its direction.
C7_DirectionFilter ==
    /\ \A n \in 1..Len(assigned) :
          /\ assigned[n].fav.direction # <<>> =>
                \A d \in Elements(assigned[n].list) :
                    d.direction_ref = assigned[n].fav.direction
          /\ assigned[n].fav.direction = <<>> => HoldsEveryEligible(assigned[n])
    /\ \A i \in 1..Len(favourites) :
          (favourites[i].direction # <<>> /\ FavKey(favourites[i]) \in DOMAIN results) =>
              \A d \in Elements(results[FavKey(favourites[i])]) :
                  d.direction_ref = favourites[i].direction

\* d passes every condition of fav but, possibly, the one on the direction
EligibleButDirection(fav, d) == Eligible([fav EXCEPT !.direction = <<>>], d)

C7_Witness ==
    \E n \in 1..Len(assigned) :
        /\ assigned[n].fav.direction = <<"1">>
        /\ \E d \in Elements(handled[assigned[n].group].deps) :
              d.direction_ref = <<"2">> /\ EligibleButDirection(assigned[n].fav, d)
        /\ assigned[n].list # <<>>
        /\ \A d \in Elements(assigned[n].list) : d.direction_ref = <<"1">>

\* C8: no departure whose normalized destination is the same place as the
\* normalized stop name of the favourite is in the list computed for it,
\* and a departure with another destination that passes the other
\* conditions is in it.
C8_TerminusExcluded ==
    \A n \in 1..Len(assigned) :
        /\ \A d \in Elements(assigned[n].list) :
              ~SamePlace(normalize(assigned[n].fav.stop_name), normalize(d.destination))
        /\ HoldsEveryEligible(assigned[n])

C8_Witness ==
    \E n \in 1..Len(assigned) :
        LET fav == assigned[n].fav
            deps == handled[assigned[n].group].deps
        IN  /\ \E d \in Elements(deps) :
                  /\ normalize(d.destination) # normalize(fav.stop_name)
                  /\ SamePlace(normalize(fav.stop_name), normalize(d.destination))
                  /\ d.eta_seconds >= 0
                  /\ d.direction_ref = fav.direction
                  /\ d \notin Elements(assigned[n].list)
            /\ assigned[n].list # <<>>

\* the expected instant of a departure, in epoch seconds
ExpectedEpoch(d) == d.fetch_timestamp + d.eta_seconds

Count(t, deps) == Cardinality({i \in 1..Len(deps) : deps[i].expected_iso = t})

\* C9 as stated: the list of a favourite with n eligible departures has
\* min(n, 5) entries, in ascending order of expected time, and no eligible
\* departure left out is expected earlier than one that is kept.
C9_EarliestByTime ==
    \A n \in 1..Len(assigned) :
        LET list == assigned[n].list
            elig == EligibleOf(assigned[n])
        IN  /\ Len(list) = Min(Len(elig), 5)
            /\ \A i, j \in 1..Len(list) :
                  i < j => ExpectedEpoch(list[i]) <= ExpectedEpoch(list[j])
            /\ \A d \in Elements(elig) :
                  Count(d.expected_iso, list) < Count(d.expected_iso, elig) =>
                      \A k \in 1..Len(list) : ExpectedEpoch(list[k]) <= ExpectedEpoch(d)

SameZone(deps) ==
    \A i, j \in 1..Len(deps) :
        /\ deps[i].expected_iso # <<>>
        /\ Len(deps[i].expected_iso) = Len(deps[j].expected_iso)
        /\ deps[i].expected_iso[Len(deps[i].expected_iso)]
             = deps[j].expected_iso[Len(deps[j].expected_iso)]

\* C9, amended: the list has min(n, 5) entries, all eligible, in ascending
\* order of the expected-time string, and no eligible departure left out
\* has a smaller string than one that is kept; when the strings of the
\* eligible departures share one format and offset, this is the ascending
\* order of expected time.
C9_FirstByExpectedString ==
    \A n \in 1..Len(assigned) :
        LET list == assigned[n].list
            elig == EligibleOf(assigned[n])
        IN  /\ Len(list) = Min(Len(elig), 5)
            /\ \A d \in Elements(list) :
                  Count(d.expected_iso, list) <= Count(d.expected_iso, elig)
            /\ \A i, j \in 1..Len(list) :
                  i < j => ~StrLess(list[j].expected_iso, list[i].expected_iso)
            /\ \A d \in Elements(elig) :
                  Count(d.expected_iso, list) < Count(d.expected_iso, elig) =>
                      \A k \in 1..Len(list) :
                          ~StrLess(d.expected_iso, list[k].expected_iso)
            /\ SameZone(elig) =>
                  /\ \A i, j \in 1..Len(list) :
                        i < j => ExpectedEpoch(list[i]) <= ExpectedEpoch(list[j])
                  /\ \A d \in Elements(elig) :
                        Count(d.expected_iso, list) < Count(d.expected_iso, elig) =>
                            \A k \in 1..Len(list) :
                                ExpectedEpoch(list[k]) <= ExpectedEpoch(d)

C9_Witness ==
    \E n \in 1..Len(assigned) :
        /\ Len(EligibleOf(assigned[n])) = 6
        /\ Len(assigned[n].list) = 5
        /\ Count(T10plus2, EligibleOf(assigned[n])) = 1
        /\ Count(T09, EligibleOf(assigned[n])) = 5
        /\ Count(T09, assigned[n].list) = 5

\* C10: every departure of the list computed for a favourite has a
\* destination that contains the favourite's destination_name, case
\* ignored, and the list holds every eligible departure; so the lists of
\* two favourites of one group hold each the departures of its own
\* favourite.
C10_DestinationFilter ==
    \A n \in 1..Len(assigned) :
        /\ \A d \in Elements(assigned[n].list) :
              ContainsIgnoringCase(d.destination, assigned[n].fav.destination_name)
        /\ HoldsEveryEligible(assigned[n])

C10_Witness ==
    /\ favourites = <<FavA, FavB>>
    /\ Len(assigned) = 2
    /\ Len(handled[1].deps) = 2
    /\ Len(assigned[1].list) = 1
    /\ Len(assigned[2].list) = 1
    /\ assigned[1].list[1].destination = NameSeR
    /\ assigned[2].list[1].destination = NameNa


\* the part of an identifier after its last ":" (all of it without ":")
TrailingSegment(s) ==
    LET colons == {i \in 1..Len(s) : s[i] = ":"}
        last == IF colons = {} THEN 0
                ELSE CHOOSE i \in colons : \A j \in colons : j <= i
    IN  SubSeq(s, last + 1, Len(s))

HasRailMarker(s) == \E i \in 1..Len(s) : s[i] = "MSP"

CatalogCalls == {j \in 1..Len(rp_requests) : rp_requests[j].to = "catalog"}

\* the number a string of decimal digits denotes
RECURSIVE NumberOf(_)
NumberOf(s) ==
    IF s = <<>> THEN 0
    ELSE 10 * NumberOf(SubSeq(s, 1, Len(s) - 1)) + DigitVal(s[Len(s)])

\* the text of the stop-area field of a catalog record that holds one
IsTextOf(text, field) ==
    \/ field.tag = "str" /\ text = field.text
    \/ /\ field.tag = "int"
       /\ text # <<>>
       /\ \A i \in 1..Len(text) : IsDigit(text[i])
       /\ NumberOf(text) = field.num

ResolveReturned == rp_pc \in {"resolved", "done"}

\* C11: once the resolver has returned, an identifier with the rail marker
\* gave its trailing segment as stop-area id, an empty stop name and no
\* catalog call; an identifier without the marker gave exactly one catalog
\* call, keyed by its trailing segment, and, when the catalog answered with
\* a record holding a stop-area id, that id (as text) and the record's
\* display name.
C11_ResolveByShape ==
    /\ Cardinality(CatalogCalls) <= 1
    /\ ResolveReturned /\ HasRailMarker(rp_stop_id) =>
          /\ rp_area = TrailingSegment(rp_stop_id)
          /\ rp_name = <<>>
          /\ CatalogCalls = {}
    /\ rp_pc # "start" /\ ~HasRailMarker(rp_stop_id) =>
          /\ CatalogCalls = {1}
          /\ rp_requests[1].params.where
                = <<"arrid=">> \o TrailingSegment(rp_stop_id)
          /\ rp_requests[1].params.limit = 1
          /\ ( /\ rp_handled[1].resp.kind = "record"
               /\ rp_handled[1].resp.zdaid.tag \in {"str", "int"} ) =>
                /\ IsTextOf(rp_area, rp_handled[1].resp.zdaid)
                /\ rp_name = rp_handled[1].resp.arrname

\* a bus identifier was resolved by the catalog to a numeric stop-area id
C11_Witness ==
    /\ rp_stop_id = <<"I", ":", "4", "2">>
    /\ rp_pc = "resolved"
    /\ rp_handled[1].resp.zdaid = JsonInt(43)
    /\ rp_area = <<"4", "3">>
    /\ rp_name = <<"P", "h">>

FeedCalls == {j \in 1..Len(rp_requests) : rp_requests[j].to = "feed"}

CatalogAnswered == rp_handled # <<>> /\ rp_handled[1].from = "catalog"

\* the catalog answered with no record, or with a record that holds no
\* stop-area id: the field is missing, null or empty
NoStopArea ==
    /\ CatalogAnswered
    /\ \/ rp_handled[1].resp.kind = "norecords"
       \/ /\ rp_handled[1].resp.kind = "record"
          /\ \/ rp_handled[1].resp.zdaid.tag \in {"absent", "null"}
             \/ rp_handled[1].resp.zdaid = JsonStr(<<>>)

\* C12: when the catalog lookup returns no record, or a record without a
\* stop-area id, the run ends with exactly one terminal event ("", "", []),
\* no error event, no exception and no live-feed request.
C12_NoRecordIsEmptyResult ==
    NoStopArea =>
        /\ rp_pc = "done"
        /\ rp_finished = <<Terminal(<<>>, <<>>, <<>>)>>
        /\ rp_errors = <<>>
        /\ FeedCalls = {}

\* C13: when the catalog call fails at transport level, the run ends with
\* exactly one error event followed by exactly one terminal event
\* ("", "", []), and no live-feed request is ever issued.
C13_ResolveFailureReported ==
    (CatalogAnswered /\ rp_handled[1].resp.kind = "fail") =>
        /\ rp_pc = "done"
        /\ rp_events = <<"error", "finished">>
        /\ rp_errors = <<"Erreur resolution">>
        /\ rp_finished = <<Terminal(<<>>, <<>>, <<>>)>>
        /\ FeedCalls = {}

\* the catalog call of a bus identifier failed
C13_Witness ==
    /\ ~HasRailMarker(rp_stop_id)
    /\ CatalogAnswered
    /\ rp_handled[1].resp.kind = "fail"
    /\ rp_events = <<"error", "finished">>

\* the last response of the live feed to the probe, and its visits
ProbeAnswer == rp_handled[Len(rp_handled)].resp

ProbeDelivered ==
    /\ rp_pc = "done"
    /\ rp_handled # <<>>
    /\ rp_handled[Len(rp_handled)].from = "feed"
    /\ ProbeAnswer.kind = "visits"

\* the destination name a visit carries: the first element of a list, else
\* the scalar, else the placeholder
VisitDestination(v) ==
    IF v.dest.tag \in {"list", "scalar"} THEN v.dest.value ELSE Unknown

\* the index of the first visit that carries the destination
FirstVisitTo(visits, dest) ==
    CHOOSE k \in 1..Len(visits) :
        /\ VisitDestination(visits[k]) = dest
        /\ \A j \in 1..(k - 1) : VisitDestination(visits[j]) # dest

\* C14: the list of the direction prober holds every named destination of
\* the visits exactly once, in order of first appearance, each paired with
\* the direction reference of the first visit that carried it.
C14_FirstDirectionKept ==
    ProbeDelivered =>
        LET visits == ProbeAnswer.visits
            dirs == rp_finished[1].directions
            named == {VisitDestination(visits[k]) : k \in 1..Len(visits)}
                         \ {<<>>, Unknown}
        IN  /\ \A i, j \in 1..Len(dirs) : i # j => dirs[i][1] # dirs[j][1]
            /\ {dirs[i][1] : i \in 1..Len(dirs)} = named
            /\ \A i \in 1..Len(dirs) :
                  dirs[i][2] = visits[FirstVisitTo(visits, dirs[i][1])].dir
            /\ \A i, j \in 1..Len(dirs) :
                  i < j => FirstVisitTo(visits, dirs[i][1])
                             < FirstVisitTo(visits, dirs[j][1])

\* a destination seen in direction "1", another destination, then the first
\* one again in direction "2"
C14_Witness ==
    /\ ProbeDelivered
    /\ Len(ProbeAnswer.visits) = 3
    /\ VisitDestination(ProbeAnswer.visits[1]) = NameMv
    /\ VisitDestination(ProbeAnswer.visits[3]) = NameMv
    /\ ProbeAnswer.visits[1].dir = <<"1">>
    /\ ProbeAnswer.visits[3].dir = <<"2">>
    /\ rp_finished[1].directions = <<<<NameMv, <<"1">>>>, <<NameNa, <<"2">>>>>>

\* the live feed answered the probe with a payload of a missing or
\* malformed shape
ProbeMalformed ==
    /\ rp_handled # <<>>
    /\ rp_handled[Len(rp_handled)].from = "feed"
    /\ ProbeAnswer.kind \in {"nokeys", "nodelivery", "badtype"}

ParseableTimes == {T07, T08, T09, T10, T10plus2}

InstantOf(t) ==
    CASE t = T07 -> 7 * 3600
      [] t = T08 -> 8 * 3600
      [] t = T09 -> 9 * 3600
      [] t = T10 -> 10 * 3600
      [] t = T10plus2 -> 8 * 3600

\* C16: no departure with eta_seconds < 0 is in any favourite's list; the
\* eta_seconds of a departure is its expected epoch minus the fetch
\* timestamp, and exactly 0 when its expected time is absent or unparseable,
\* so that such a departure is kept like one leaving now.
C16_EtaFilter ==
    /\ \A n \in 1..Len(assigned) :
          /\ \A d \in Elements(assigned[n].list) : d.eta_seconds >= 0
          /\ HoldsEveryEligible(assigned[n])
    /\ \A k \in 1..Len(handled) : \A d \in Elements(handled[k].deps) :
          /\ d.expected_iso \in ParseableTimes =>
                d.eta_seconds = InstantOf(d.expected_iso) - d.fetch_timestamp
          /\ d.expected_iso \notin ParseableTimes => d.eta_seconds = 0

\* fetched at 08:00: a departure expected at 07:00 is dropped, one without
\* any time is kept with eta 0
C16_Witness ==
    /\ Len(handled) = 1
    /\ Len(assigned) = 1
    /\ Len(handled[1].deps) = 2
    /\ handled[1].deps[1].eta_seconds = -3600
    /\ handled[1].deps[2].expected_iso = <<>>
    /\ assigned[1].list = <<handled[1].deps[2]>>
    /\ assigned[1].list[1].eta_seconds = 0


\* C17: the expected time of every departure is the expected-departure time
\* of its visit if present, else the expected-arrival time if present, else
\* the aimed-departure time if present, else empty.
C17_ExpectedTimePriority ==
    \A k \in 1..Len(handled) :
        handled[k].kind = "visits" =>
            /\ Len(handled[k].deps) = Len(handled[k].visits)
            /\ \A i \in 1..Len(handled[k].visits) :
                  LET v == handled[k].visits[i]
                      d == handled[k].deps[i]
                  IN  /\ v.edt # <<>> => d.expected_iso = v.edt
                      /\ v.edt = <<>> /\ v.eat # <<>> => d.expected_iso = v.eat
                      /\ v.edt = <<>> /\ v.eat = <<>> => d.expected_iso = v.adt

\* one visit with all three fields, one without the expected-departure
\* time
C17_Witness ==
    /\ Len(handled) = 1
    /\ handled[1].kind = "visits"
    /\ Len(handled[1].visits) = 2
    /\ handled[1].visits[1].edt = T09
    /\ handled[1].visits[1].eat = T07
    /\ handled[1].visits[1].adt = T09
    /\ handled[1].deps[1].expected_iso = T09
    /\ handled[1].visits[2].edt = <<>>
    /\ handled[1].visits[2].eat = T07
    /\ handled[1].visits[2].adt = T09
    /\ handled[1].deps[2].expected_iso = T07

\* the last element of a non-empty sequence
Last(seq) == seq[Len(seq)]

NaturalRank(name) ==
    CASE name = <<"1">> -> 1
      [] name = <<"2">> -> 2
      [] name = <<"1", "0">> -> 3
      [] name = <<"T", "1">> -> 4
      [] name = <<"t", "2">> -> 5
      [] name = <<"T", "3", "a">> -> 6

DisplayName(record) ==
    IF record.shortname_line # <<>> THEN record.shortname_line
    ELSE record.name_line

LinesDelivered ==
    /\ ls_pc = "done"
    /\ ls_handled[1].kind = "records"

Names(lines) == [i \in 1..Len(lines) |-> lines[i].line_name]

\* C19: the lines of the terminal event are those of the response, in
\* ascending natural order of their display names; so the labels
\* 10, 2, 1, T1, T3a come out as 1, 2, 10, T1, T3a.
C19_NaturalOrder ==
    LinesDelivered =>
        LET records == ls_handled[1].records
            lines == ls_events[1].results
        IN  /\ Len(ls_events) = 1
            /\ Len(lines) = Len(records)
            /\ {lines[i].line_name : i \in 1..Len(lines)}
                 = {DisplayName(records[i]) : i \in 1..Len(records)}
            /\ \A i, j \in 1..Len(lines) :
                  i < j => NaturalRank(lines[i].line_name)
                             < NaturalRank(lines[j].line_name)
            /\ [i \in 1..Len(records) |-> DisplayName(records[i])]
                 = <<<<"1", "0">>, <<"2">>, <<"1">>, <<"T", "1">>, <<"T", "3", "a">>>>
               => Names(lines)
                    = <<<<"1">>, <<"2">>, <<"1", "0">>, <<"T", "1">>, <<"T", "3", "a">>>>

\* the catalog returned the labels 10, 2, 1, T1, T3a in this order
C19_Witness ==
    /\ LinesDelivered
    /\ [i \in 1..Len(ls_handled[1].records) |-> DisplayName(ls_handled[1].records[i])]
         = <<<<"1", "0">>, <<"2">>, <<"1">>, <<"T", "1">>, <<"T", "3", "a">>>>
    /\ Names(ls_events[1].results)
         = <<<<"1">>, <<"2">>, <<"1", "0">>, <<"T", "1">>, <<"T", "3", "a">>>>

StopsDelivered ==
    /\ sl_pc = "done"
    /\ sl_handled[1].kind = "records"

\* the index of the first record with the name
FirstRecordNamed(records, name) ==
    CHOOSE k \in 1..Len(records) :
        /\ records[k].stop_name = name
        /\ \A j \in 1..(k - 1) : records[j].stop_name # name

\* the stops of the terminal event have pairwise distinct, non-empty names,
\* those of the records, each with the stop id of the first record of that
\* name
DistinctFirstWins(records, stops) ==
    /\ \A i, j \in 1..Len(stops) :
          i # j => stops[i].stop_name # stops[j].stop_name
    /\ {stops[i].stop_name : i \in 1..Len(stops)}
         = {records[k].stop_name : k \in 1..Len(records)} \ {<<>>}
    /\ \A i \in 1..Len(stops) :
          stops[i].stop_id
            = records[FirstRecordNamed(records, stops[i].stop_name)].stop_id

\* alphabetical order looks at the letters, whatever their case and accents
AlphaKey(name) == Lower(StripAccents(name))

Alphabetical(stops) ==
    \A i, j \in 1..Len(stops) :
        i < j => ~StrLess(AlphaKey(stops[j].stop_name),
                          AlphaKey(stops[i].stop_name))

\* what line 237 gives: ascending order of the code points of the names
ByCodePoint(stops) ==
    \A i, j \in 1..Len(stops) :
        i < j => StrLess(stops[i].stop_name, stops[j].stop_name)

\* the part of C20 the code has: distinct names, first stop id kept, empty
\* names dropped, names in ascending code-point order
StopsDistinctByCodePoint ==
    StopsDelivered =>
        /\ Len(sl_events) = 1
        /\ DistinctFirstWins(sl_handled[1].records, sl_events[1].results)
        /\ ByCodePoint(sl_events[1].results)

\* C20: the stops of the terminal event have pairwise distinct names, each
\* with the stop id of the first record of that name, records with an
\* empty name are dropped, and the stops are in alphabetical order of name.
C20_DistinctSortedStops ==
    StopsDelivered =>
        /\ Len(sl_events) = 1
        /\ DistinctFirstWins(sl_handled[1].records, sl_events[1].results)
        /\ Alphabetical(sl_events[1].results)

LineSearchFailed == ls_handled # <<>> /\ ls_handled[1].kind = "fail"

StopsFailed == sl_handled # <<>> /\ sl_handled[1].kind = "fail"

Signals(events) == [i \in 1..Len(events) |-> events[i].signal]

\* C21: when the catalog request of LineSearchWorker or StopsOnLineWorker
\* fails at transport level, the worker ends having emitted exactly one
\* error event and then exactly one terminal event with an empty list.
C21_CatalogFailureReported ==
    /\ LineSearchFailed =>
          /\ ls_pc = "done"
          /\ Signals(ls_events) = <<"error", "finished">>
          /\ ls_events[2].results = <<>>
          /\ ls_events[2].search_id = ls_search_id
    /\ StopsFailed =>
          /\ sl_pc = "done"
          /\ Signals(sl_events) = <<"error", "finished">>
          /\ sl_events[2].results = <<>>

\* both catalog requests failed
C21_Witness ==
    /\ LineSearchFailed
    /\ StopsFailed
    /\ Len(ls_events) = 2
    /\ Len(sl_events) = 2

\* a occurs in b as a run of consecutive characters
OccursIn(a, b) ==
    \E i \in 1..Len(b), j \in 1..Len(b) : i <= j /\ SubSeq(b, i, j) = a

\* C22: is_same_place(a, b) is true exactly when both names are non-empty
\* and one of them occurs in the other; it is false as soon as one of them
\* is empty, and is_same_place(b, a) returns the same value.
C22_SamePlace ==
    sp_pc = "done" =>
        /\ sp_out = (/\ sp_a # <<>>
                     /\ sp_b # <<>>
                     /\ (OccursIn(sp_a, sp_b) \/ OccursIn(sp_b, sp_a)))
        /\ (sp_a = <<>> \/ sp_b = <<>>) => ~sp_out
        /\ sp_swapped = sp_out

\* a name found strictly inside a longer one, and the call has returned true
C22_Witness ==
    /\ sp_pc = "done"
    /\ sp_a = <<"b">>
    /\ sp_b = <<"a", "b", "a">>
    /\ sp_out
    /\ sp_swapped

\* two favourites with the same stop area, line and destination name
SameIdentity(f, g) ==
    /\ f.stop_area_id = g.stop_area_id
    /\ f.line_id = g.line_id
    /\ f.destination_name = g.destination_name

Holds(favs, fav) == \E i \in 1..Len(favs) : SameIdentity(favs[i], fav)

\* the step is a run of _on_favourite_added
AddStep == mw_ops' = mw_ops + 1 /\ mw_last'.op = "add"

\* C23: starting from a list without duplicates, no addition or deletion
\* leaves two favourites of the same identity (stop_area_id, line_id,
\* destination_name) in the list, and adding an identity that is already
\* there changes nothing: the list is the same, nothing is saved and no
\* refresh is launched.
C23_NoDuplicateFavourites ==
    [][/\ \A i \in 1..Len(mw_favourites'), j \in 1..Len(mw_favourites') :
              i # j => ~SameIdentity(mw_favourites'[i], mw_favourites'[j])
       /\ (AddStep /\ Holds(mw_favourites, mw_last'.fav)) =>
              /\ mw_favourites' = mw_favourites
              /\ mw_saves' = mw_saves
              /\ mw_file' = mw_file
              /\ mw_workers' = mw_workers]_vars

\* FavF was added to a list that holds FavA, of the same identity
C23_Witness ==
    /\ mw_last = Handler("add", FavF, 0)
    /\ mw_favourites = <<FavA, FavC>>
    /\ mw_saves = 1
    /\ mw_ops = 2
    /\ mw_workers # <<>>

\* the step is a run of _auto_refresh
TickStep == mw_ops' = mw_ops + 1 /\ mw_last'.op = "tick"

\* the step appends one running departure worker on the current favourites
RefreshLaunched ==
    /\ Len(mw_workers') = Len(mw_workers) + 1
    /\ SubSeq(mw_workers', 1, Len(mw_workers)) = mw_workers
    /\ mw_workers'[Len(mw_workers')].kind = "departures"
    /\ mw_workers'[Len(mw_workers')].favs = mw_favourites
    /\ mw_workers'[Len(mw_workers')].st = "running"

\* C24: when the auto-refresh timer fires at a local hour h with
\* 2 <= h < 5, no refresh is launched and the next-refresh label reads
\* "Pause nocturne"; at any other hour the tick launches a refresh of the
\* current favourites, provided there are favourites.
C24_NightPause ==
    [][TickStep =>
          IF mw_last'.hour \in {2, 3, 4}
          THEN /\ mw_workers' = mw_workers
               /\ mw_active_workers' = mw_active_workers
               /\ next_refresh' = "Pause nocturne"
          ELSE /\ mw_favourites # <<>> => RefreshLaunched
               /\ mw_favourites = <<>> => mw_workers' = mw_workers]_vars

\* after a refresh launched by a tick at 1 o'clock, the timer fired at 4
C24_Witness ==
    /\ mw_last = Handler("tick", NoFav, 4)
    /\ next_refresh = "Pause nocturne"
    /\ mw_favourites # <<>>
    /\ Len(mw_workers) = 1
    /\ mw_ops = 2

\* the file holds a JSON array of objects that name exactly fields of
\* Favourite, the four without a default among them
DescribesFavourites(file) ==
    /\ file.kind = "json"
    /\ ValidJson(file.value)
    /\ file.value.tag = "array"
    /\ \A i \in 1..Len(file.value.items) :
           /\ file.value.items[i].tag = "object"
           /\ DOMAIN file.value.items[i].members \subseteq FavouriteFields
           /\ RequiredFields \subseteq DOMAIN file.value.items[i].members

\* C25: load_favourites returns the empty list, and does not raise, when
\* the file is missing, is not valid JSON or is JSON that does not describe
\* a list of favourites; loading what save_favourites has written returns
\* an equal list in the same order.
C25_LoadFavourites ==
    /\ (pf_pc = "loaded" /\ ~DescribesFavourites(pf_file)) => pf_out = Returned(<<>>)
    /\ pf_pc = "reloaded" => pf_out = Returned(pf_favourites)

\* what holds of the code: the same, for the files that decode as UTF-8
LoadsDecodedFiles ==
    /\ (pf_pc = "loaded" /\ ~DescribesFavourites(pf_file) /\ pf_file.kind # "bytes")
           => pf_out = Returned(<<>>)
    /\ pf_pc = "reloaded" => pf_out = Returned(pf_favourites)

\* two favourites with escaped characters came back from the file
RoundTripReached ==
    /\ pf_pc = "reloaded"
    /\ Len(pf_favourites) = 2
    /\ pf_favourites[1] # pf_favourites[2]
    /\ pf_out.value = pf_favourites

\* the step is a run of the handler op of the search screen
FlowStep(op) == ss_last'.flip # ss_last.flip /\ ss_last'.op = op

BackToHome(emitted) == \E i \in 1..Len(emitted) : emitted[i] = "back_to_home"

\* C26: the search flow has four pages, numbered 0 to 3.  Selecting a
\* mode, a line, a stop shows page 1, 2, 3; the back button on page k > 0
\* shows page k - 1, and on page 0 it emits back_to_home and leaves the
\* page as it is; reset shows page 0 and clears the selected mode, line
\* and stop and the resolved stop-area id.
C26_SearchFlow ==
    [][/\ ss_page' \in 0..3
       /\ FlowStep("mode") => ss_page' = 1
       /\ FlowStep("line") => ss_page' = 2
       /\ FlowStep("stop") => ss_page' = 3
       /\ FlowStep("back") =>
              IF ss_page > 0
              THEN ss_page' = ss_page - 1 /\ ~BackToHome(ss_last'.emitted)
              ELSE ss_page' = 0 /\ BackToHome(ss_last'.emitted)
       /\ FlowStep("reset") =>
              /\ ss_page' = 0
              /\ selected_mode' = ""
              /\ selected_line' = None
              /\ selected_stop' = None
              /\ resolved_stop_area_id' = ""]_vars

\* the back button pressed on page 0, reached by going back from page 3
C26_Witness ==
    /\ ss_last.op = "back"
    /\ ss_last.emitted = <<"back_to_home">>
    /\ ss_page = 0
    /\ selected_stop # None
    /\ resolved_stop_area_id = "7"

Launched(k) == k \in 1..Len(mw_workers)

InList(list, x) == \E i \in 1..Len(list) : list[i] = x

\* the thread of worker k has finished
ThreadDone(k) == mw_workers[k].st \in {"finished", "cleaned"}

\* worker k has emitted its terminal event
HasEmitted(k) == mw_workers[k].st \notin {"running", "raised"}

\* the thread of worker k was told to quit
ToldToQuit(k) == mw_workers[k].st \in {"quit", "finished", "cleaned"}

AllEmitted == \A k \in 1..Len(mw_workers) : HasEmitted(k)

NoneActive == mw_active_workers = <<>> /\ mw_active_threads = <<>>

\* C27: a worker started through _launch_worker stays in _active_workers,
\* and its thread in _active_threads, until its thread has finished; the
\* thread is told to quit by the terminal event of the worker, and not
\* before; and when from some point on every launched worker has emitted
\* its terminal event, both lists end up empty.
C27_WorkerLifecycle ==
    /\ [](\A k \in WorkerIds :
              Launched(k) =>
                  /\ ~ThreadDone(k) =>
                         InList(mw_active_workers, k) /\ InList(mw_active_threads, k)
                  /\ ToldToQuit(k) => HasEmitted(k))
    /\ \A k \in WorkerIds :
           (Launched(k) /\ HasEmitted(k)) ~> (Launched(k) /\ ToldToQuit(k))
    /\ (<>[]AllEmitted) => (<>[]NoneActive)

\* a departure worker and another worker were launched, both have ended
\* and been cleaned up
C27_Witness ==
    /\ Len(mw_workers) = 2
    /\ mw_workers[1].kind # mw_workers[2].kind
    /\ \A k \in 1..2 : mw_workers[k].st = "cleaned"
    /\ NoneActive

Parti == <<"P", "a", "r", "t", "i">>

Imminent == <<"<", " ", "1", " ", "m", "i", "n">>

Minutes(n) == Decimal(n) \o <<" ", "m", "i", "n">>

\* the text the label must show for a remaining time
Shown(eta_seconds, remaining) ==
    IF eta_seconds <= 0 THEN <<"-", "-">>
    ELSE IF remaining < 0 - 30 THEN Parti
    ELSE IF remaining < 60 THEN Imminent
    ELSE Minutes(CHOOSE n \in 1..MaxEta : 60 * n <= remaining /\ remaining < 60 * (n + 1))

\* the value of a text of the label: the minutes shown, 0 for "< 1 min",
\* -1 for "Parti"
ShownValue(text) ==
    IF text = Parti THEN 0 - 1
    ELSE IF text = Imminent THEN 0
    ELSE ToInt(SubSeq(text, 1, Len(text) - 4))

\* C28: update_countdown shows "--" whenever eta_seconds <= 0; otherwise,
\* with remaining = eta_seconds - (now - fetch_timestamp), it shows "Parti"
\* when remaining < -30, "< 1 min" when -30 <= remaining < 60 and
\* floor(remaining / 60) minutes above; as time passes, the value shown
\* never increases.
C28_Countdown ==
    [][/\ countdown_label' =
              Shown(dc_eta_seconds, dc_eta_seconds - (dc_now' - dc_fetch_timestamp))
       /\ dc_eta_seconds > 0 => ShownValue(countdown_label') <= ShownValue(countdown_label)
       /\ dc_eta_seconds <= 0 => countdown_label' = countdown_label]_vars

\* a departure two minutes away at the fetch is shown as gone
C28_Witness ==
    /\ dc_eta_seconds = 120
    /\ dc_now - dc_fetch_timestamp = 151
    /\ countdown_label = Parti

KeyOf(f) == f.stop_area_id \o <<"_">> \o f.line_id \o <<"_">> \o f.direction

\* C29: whatever the interleaving of additions, deletions and completions
\* of refreshes in flight, every key of departure_map is the composite key
\* of a favourite of the list: a refresh started before a favourite was
\* deleted does not bring its entry back.
C29_MapKeysAreFavourites ==
    \A key \in DOMAIN departure_map :
        \E i \in 1..Len(mw_favourites) : KeyOf(mw_favourites[i]) = key

\* the dict of departure worker k has been received
Received(k) ==
    /\ Launched(k)
    /\ mw_workers[k].kind = "departures"
    /\ mw_workers[k].st \in {"delivered", "quit", "finished", "cleaned"}

\* C30: when two refreshes overlap and both have delivered, departure_map
\* holds, under every key both delivered, the list of the refresh launched
\* last (or of a still later one), in whatever order they completed.
C30_LastLaunchedWins ==
    \A i \in WorkerIds, j \in WorkerIds :
        (i < j /\ Received(i) /\ Received(j)) =>
            \A key \in DOMAIN mw_workers[i].out \cap DOMAIN mw_workers[j].out :
                key \in DOMAIN departure_map => departure_map[key] >= j

\* what holds of the code: each key holds the list of a refresh that
\* delivered it
MapHoldsDeliveredLists ==
    \A key \in DOMAIN departure_map :
        /\ Received(departure_map[key])
        /\ key \in DOMAIN mw_workers[departure_map[key]].out

\* two overlapping refreshes have both delivered the same key
OverlapDelivered ==
    /\ Received(1)
    /\ Received(2)
    /\ DOMAIN mw_workers[1].out \cap DOMAIN mw_workers[2].out # {}
    /\ departure_map # EmptyMap

FavouriteEmitted ==
    \E i \in 1..Len(ss_last.emitted) : ss_last.emitted[i] = "favourite_added"

\* C31: a favourite emitted by the search flow carries the stop area
\* resolved for the stop that is selected when the direction is chosen; the
\* late result of the resolution of a stop selected earlier is never used
\* for it.
C31_FavouriteOfSelectedStop ==
    FavouriteEmitted =>
        /\ selected_stop # None
        /\ ss_last.fav.stop_area_id = (IF selected_stop = "s1" THEN "7" ELSE "8")

\* a favourite emitted with the stop area of the selected stop, when the
\* result of an earlier selection arrived first
FavouriteOfSelectedStopReached ==
    /\ FavouriteEmitted
    /\ selected_stop = "s2"
    /\ ss_last.fav.stop_area_id = "8"
    /\ ss_probing = <<>>

\* C35: favourite_added is never emitted with an empty stop_area_id:
\* choosing a direction emits nothing unless a line is selected and the
\* last resolution delivered a stop area that is not empty.
C35_NoFavouriteWithoutArea ==
    /\ FavouriteEmitted =>
           /\ ss_last.fav.stop_area_id # ""
           /\ ss_last.fav.line_id # None
           /\ ss_last.fav.stop_area_id = resolved_stop_area_id
    /\ (ss_last.op = "direction" /\ resolved_stop_area_id = "") => ~FavouriteEmitted

\* a direction was chosen after a resolution that failed: nothing emitted
C35_Witness ==
    /\ ss_last.op = "direction"
    /\ ss_last.emitted = <<>>
    /\ resolved_stop_area_id = ""
    /\ selected_line # None
    /\ ss_probing = <<>>
    /\ ss_page = 3

\* C36: the list of the direction prober holds no pair whose destination is
\* empty or "?": a visit without a usable destination name adds nothing to
\* it, whatever its direction reference.
C36_NoNamelessDirection ==
    ProbeDelivered =>
        LET visits == ProbeAnswer.visits
            dirs == rp_finished[1].directions
            named == {VisitDestination(visits[k]) : k \in 1..Len(visits)}
                         \ {<<>>, Unknown}
        IN  /\ \A i \in 1..Len(dirs) : dirs[i][1] # <<>> /\ dirs[i][1] # Unknown
            /\ Len(dirs) = Cardinality(named)

\* a visit with an empty name in direction "1", a named one, and one with
\* the placeholder in direction "2": one pair is returned
C36_Witness ==
    /\ ProbeDelivered
    /\ Len(ProbeAnswer.visits) = 3
    /\ ProbeAnswer.visits[1].dest = AsList(<<>>)
    /\ ProbeAnswer.visits[1].dir = <<"1">>
    /\ ProbeAnswer.visits[2].dest = AsList(NameMv)
    /\ ProbeAnswer.visits[3].dest = AsList(Unknown)
    /\ ProbeAnswer.visits[3].dir = <<"2">>
    /\ rp_finished[1].directions = <<<<NameMv, <<"1">>>>>>

\* strings at the even positions of a key (counted from 0), integers at the
\* odd ones
Alternates(key) == \A i \in 1..Len(key) : key[i].num <=> (i % 2 = 0)

\* a < b, a = b or b < a is decided on two items of one type
Decided(a, b) ==
    /\ \A i \in 1..Min(Len(a), Len(b)) :
          (\A j \in 1..(i - 1) : a[j] = b[j]) => (a[i].num <=> b[i].num)
    /\ (KeyLess(a, b) \/ a = b \/ KeyLess(b, a))
    /\ ~(KeyLess(a, b) /\ KeyLess(b, a))

LabelsOf(records) == {DisplayName(records[i]) : i \in 1..Len(records)}

\* C37: every label has a natural sort key, with strings at its even
\* positions (counted from 0) and integers at its odd positions; so two
\* keys are always compared item by item within one type and the order of
\* the labels is total.
C37_KeysAlternate ==
    (ls_handled # <<>> /\ ls_handled[1].kind = "records") =>
        LET labels == LabelsOf(ls_handled[1].records)
        IN  /\ \A l \in labels :
                  ~KeyRaises(l) /\ Alternates(_natural_sort_key(l))
            /\ \A a, b \in labels :
                  Decided(_natural_sort_key(a), _natural_sort_key(b))

\* the same on the labels whose digits are all decimal
KeysAlternateOnDecimalLabels ==
    (ls_handled # <<>> /\ ls_handled[1].kind = "records") =>
        LET labels == {l \in LabelsOf(ls_handled[1].records) : ~KeyRaises(l)}
        IN  /\ \A l \in labels : Alternates(_natural_sort_key(l))
            /\ \A a, b \in labels :
                  Decided(_natural_sort_key(a), _natural_sort_key(b))

\* a run on five labels all of which have a key
DecimalLabelsSorted ==
    /\ ls_pc = "done"
    /\ Len(ls_handled[1].records) = 5
    /\ Names(ls_events[1].results)
         = <<<<"2">>, <<"1", "0">>, <<"T", "1">>, <<"t", "1", "0", "a">>, <<"T", "sup2">>>>

DeleteStep == mw_ops' = mw_ops + 1 /\ mw_last'.op = "delete"

\* widgets.py 313-315: the departures shown for a favourite, none when the
\* map lacks its key
Displayed(map, f) == IF KeyOf(f) \in DOMAIN map THEN <<map[KeyOf(f)]>> ELSE <<>>

\* the favourites of another identity than f's, in their order
OthersThan(favs, f) ==
    LET Other(g) == ~SameIdentity(g, f) IN SelectSeq(favs, Other)

\* C32: deleting a favourite f of the list removes exactly the favourites
\* of f's identity; every other favourite stays, with the departures
\* displayed for it, also one that shares f's stop, line and direction with
\* another destination.
C32_DeleteFrame ==
    [][(DeleteStep /\ Holds(mw_favourites, mw_last'.fav)) =>
          /\ mw_favourites' = OthersThan(mw_favourites, mw_last'.fav)
          /\ \A i \in 1..Len(mw_favourites') :
                Displayed(departure_map', mw_favourites'[i])
                  = Displayed(departure_map, mw_favourites'[i])]_vars

\* what holds of the code: the list loses the favourites of f's identity
\* only, and the map loses f's key only
DeleteRemovesIdentityAndKey ==
    [][DeleteStep =>
          /\ mw_favourites' = OthersThan(mw_favourites, mw_last'.fav)
          /\ mw_file' = mw_favourites'
          /\ departure_map' = [k \in DOMAIN departure_map \ {KeyOf(mw_last'.fav)}
                                  |-> departure_map[k]]]_vars

\* the slot _on_departures_received runs on the dict of departure worker k
ReceiveStep(k) ==
    /\ Launched(k)
    /\ mw_workers[k].kind = "departures"
    /\ mw_workers[k].st = "emitted"
    /\ mw_workers'[k].st = "delivered"

\* C33: a completed refresh is merged into departure_map: every delivered
\* key takes its new list, and every other entry, such as that of a
\* favourite whose request failed in this refresh, is the list held before;
\* nothing is cleared.
C33_RefreshMerges ==
    [][\A k \in WorkerIds :
          ReceiveStep(k) =>
              LET out == mw_workers[k].out
                  favs == mw_workers[k].favs
              IN  /\ DOMAIN departure_map' = DOMAIN departure_map \cup DOMAIN out
                  /\ \A key \in DOMAIN out : departure_map'[key] = out[key]
                  /\ \A key \in DOMAIN departure_map \ DOMAIN out :
                        departure_map'[key] = departure_map[key]
                  /\ \A i \in 1..Len(favs) :
                        KeyOf(favs[i]) \notin DOMAIN out =>
                            Displayed(departure_map', favs[i])
                              = Displayed(departure_map, favs[i])]_vars

\* the request of the second refresh failed and its empty dict was
\* received: the favourite still has the list of the first refresh
C33_Witness ==
    /\ Received(1)
    /\ Received(2)
    /\ mw_workers[1].out # EmptyMap
    /\ mw_workers[2].out = EmptyMap
    /\ mw_workers[2].st = "delivered"
    /\ mw_workers[2].favs # <<>>
    /\ \A i \in 1..Len(mw_workers[2].favs) :
          Displayed(departure_map, mw_workers[2].favs[i]) = <<1>>

BothTimersStopped == ~refresh_timer /\ ~countdown_timer

\* the workers launched by a step
LaunchedBy == Len(mw_workers') - Len(mw_workers)

\* C34: the window sleeps exactly when both of its timers are stopped.
\* Sleep is entered from the home page only, with a positive sleep delay,
\* and stops both timers; while the window sleeps no timer handler runs and
\* no refresh is launched; waking up restarts both timers and calls for one
\* refresh.
C34_SleepStopsTimers ==
    /\ [](_sleeping <=> BothTimersStopped)
    /\ [][/\ (~_sleeping /\ _sleeping') =>
              /\ stack_index = 0
              /\ sleep_delay_minutes > 0
              /\ ~refresh_timer' /\ ~countdown_timer'
              /\ LaunchedBy = 0
          /\ (_sleeping /\ _sleeping') =>
              /\ mw_ops' = mw_ops
              /\ LaunchedBy = 0
          /\ (_sleeping /\ ~_sleeping') =>
              /\ refresh_timer' /\ countdown_timer'
              /\ mw_ops' = mw_ops
              /\ LaunchedBy = (IF mw_favourites = <<>> THEN 0 ELSE 1)
              /\ mw_favourites # <<>> =>
                    mw_workers'[Len(mw_workers')]
                      = NewWorker("departures", mw_favourites)]_vars

\* one countdown tick put the window to sleep and a tap woke it up: the
\* timers run again and the refresh of the wake-up is the only worker
C34_Witness ==
    /\ ~_sleeping
    /\ refresh_timer /\ countdown_timer
    /\ mw_ops = 1
    /\ mw_last.op = "countdown"
    /\ Len(mw_workers) = 1
    /\ mw_workers[1].kind = "departures"
    /\ sleep_delay_minutes = 5

=========================================================================
